---------------------------- MODULE Spec2Model ----------------------------
(***************************************************************************)
(* AUMO-ORION eco-routing core: time-dependent multi-objective A* search   *)
(* (algorithms/orion.py, algorithms/astar.py), the Pareto route set, and   *)
(* the MPC re-planning engine behind the /api/route/replan handler         *)
(* (main.py).                                                              *)
(*                                                                         *)
(* Number representation.  The program computes in binary floating point;  *)
(* the model computes in fixed point, every quantity an integer count of   *)
(* the unit below, and every division truncating:                          *)
(*     length, distance     1 m                                            *)
(*     longitude            0.001 degree (all nodes lie on the equator)    *)
(*     speed                0.1 km/h                                       *)
(*     travel time, clock   0.01 s                                         *)
(*     congestion           0.001                                          *)
(*     emission factor      0.1 g/km                                       *)
(*     CO2                  0.1 g                                          *)
(*     weights              0.01                                           *)
(*     scalar cost, g, h, f 0.0001                                         *)
(*     durationMin          0.01 min                                       *)
(***************************************************************************)
EXTENDS Integers, Sequences, FiniteSets, TLC

VARIABLES
    road_graph,       \* main.py: the process-wide road graph (the name of one below)
    query,            \* arguments of the orion_route / pareto call in progress
    search,           \* local state of the orion_route call in progress
    replan_engines,   \* main.py: ride_id -> ReplanningEngine
    response,         \* what the last facade call returned
    drive,            \* the client of the drive scenario: hops travelled
    contraction_hierarchy,  \* main.py: the ContractionHierarchy, or None
    tasks,            \* replan_route calls in flight on the event loop
    running           \* the call that holds the event loop, 0 if none does

vars == <<road_graph, query, search, replan_engines, response, drive,
          contraction_hierarchy, tasks, running>>

----------------------------------------------------------------------------
(* Small helpers *)

Abs(x) == IF x < 0 THEN -x ELSE x

Max(a, b) == IF a >= b THEN a ELSE b

Min(a, b) == IF a <= b THEN a ELSE b

\* Python's round(): to the nearest multiple of 1/d, ties to even.
RoundDiv(x, d) ==
    LET q == x \div d
        r == x % d
    IN  IF 2 * r > d \/ (2 * r = d /\ q % 2 = 1) THEN q + 1 ELSE q

\* dict.get(key, default) on a function used as a dict
Get(dict, key, default) == IF key \in DOMAIN dict THEN dict[key] ELSE default

\* Python's None, where a route (a record) may stand instead
None == [none |-> TRUE]

----------------------------------------------------------------------------
(* config.py *)

v_max_kmh == 120

\* bpr_alpha = 0.15, in hundredths
bpr_alpha == 15

bpr_beta == 4

----------------------------------------------------------------------------
(* utils/haversine.py *)

\* haversine() of two points on the equator whose longitudes are lng1, lng2:
\* a = sin^2(dlng/2), so d = 2R*atan2(sqrt a, sqrt(1-a)) = R*|dlng| with
\* R = 6 371 000 m, that is 111.195 m for each 0.001 degree.
haversine(lng1, lng2) == (Abs(lng2 - lng1) * 111195) \div 1000

----------------------------------------------------------------------------
(* algorithms/emissions.py *)

\* fuel consumption in 1e-6 L/km; speed clamped from below to 5 km/h and the
\* result to 0.01 L/km
fuel_consumption(speed_kmh) ==
    LET v  == Max(speed_kmh, 50)
        fc == 66700 + (556000 \div v) + ((472 * v * v) \div 100)
    IN  Max(fc, 10000)

\* EF(v) = 2310 * fuel_consumption(v), in 0.1 g/km
emission_factor(speed_kmh) == (2310 * (fuel_consumption(speed_kmh) \div 100)) \div 1000

----------------------------------------------------------------------------
(* algorithms/astar.py *)

\* hour of day of a clock value (datetime.hour)
HourOf(t) == (t \div 360000) % 24

\* the time-of-day volume model of time_dependent_weight, in hundredths
volume_ratio(current_time) ==
    LET hour == HourOf(current_time)
    IN  IF (7 <= hour /\ hour < 9) \/ (17 <= hour /\ hour < 19) THEN 85
        ELSE IF 9 <= hour /\ hour < 17 THEN 60
        ELSE IF (5 <= hour /\ hour < 7) \/ (19 <= hour /\ hour < 22) THEN 40
        ELSE 15

\* float("inf") and the nan that 0 * inf yields: every finite quantity of
\* the model is >= 0, so two negative values stand for them
Inf == -1

NaN == -2

IsNumber(x) == x >= 0

\* a + b and a < b on floats that may be inf or nan
FAdd(a, b) == IF a = NaN \/ b = NaN THEN NaN ELSE IF a = Inf \/ b = Inf THEN Inf ELSE a + b

FLess(a, b) == IsNumber(a) /\ (b = Inf \/ (IsNumber(b) /\ a < b))

RECURSIVE Pow(_, _)
Pow(b, e) == IF e = 0 THEN 1 ELSE b * Pow(b, e - 1)

\* bpr_travel_time giving an hour, not infinity, for a road without speed
bpr_travel_time_HourForClosed(length_m, free_flow_speed_kmh, vc) ==
    IF free_flow_speed_kmh <= 0 THEN 360000
    ELSE LET t0     == (length_m * 3600) \div free_flow_speed_kmh
             factor == 10000 + (bpr_alpha * Pow(vc, bpr_beta)) \div 1000000
         IN  (t0 * factor) \div 10000

\* t0 * (1 + bpr_alpha * (volume/capacity)^bpr_beta); vc is volume/capacity in
\* hundredths.  Infinite for a free-flow speed <= 0.
bpr_travel_time(length_m, free_flow_speed_kmh, vc) ==
    IF free_flow_speed_kmh <= 0 THEN Inf
    ELSE LET t0     == (length_m * 3600) \div free_flow_speed_kmh
             factor == 10000 + (bpr_alpha * Pow(vc, bpr_beta)) \div 1000000
         IN  (t0 * factor) \div 10000

\* time_dependent_weight without its prediction branch (lines 117-122)
time_dependent_weight_IgnoresPredictions(edge_data, current_time, traffic_predictions, edge_key) ==
    LET vc          == IF edge_data.capacity > 0 THEN volume_ratio(current_time) ELSE 0
        travel_time == bpr_travel_time(edge_data.length_m, edge_data.free_flow_speed_kmh, vc)
    IN  [travel_time |-> travel_time,
         speed       |-> IF travel_time = Inf THEN 0
                         ELSE IF travel_time > 0
                         THEN (edge_data.length_m * 3600) \div travel_time
                         ELSE edge_data.free_flow_speed_kmh]

\* (travel_time, speed) of an edge entered at current_time
time_dependent_weight(edge_data, current_time, traffic_predictions, edge_key) ==
    LET length_m        == edge_data.length_m
        free_flow_speed == edge_data.free_flow_speed_kmh
        capacity        == edge_data.capacity
        predicted_speed == Get(traffic_predictions, edge_key, 0)
    IN  IF edge_key \in DOMAIN traffic_predictions /\ predicted_speed > 0
        THEN [travel_time |-> (length_m * 3600) \div predicted_speed,
              speed       |-> predicted_speed]
        ELSE LET vc          == IF capacity > 0 THEN volume_ratio(current_time) ELSE 0
                 travel_time == bpr_travel_time(length_m, free_flow_speed, vc)
             IN  [travel_time |-> travel_time,
                  \* length / inf = 0.0 in floating point
                  speed       |-> IF travel_time = Inf THEN 0
                                  ELSE IF travel_time > 0
                                  THEN (length_m * 3600) \div travel_time
                                  ELSE free_flow_speed]

----------------------------------------------------------------------------
(* algorithms/orion.py: extended_edge_cost *)

\* (cost, breakdown) of an edge entered at current_time; detour_ratio is
\* left at its default 0.0 by every caller, so the delta term is 0.
extended_edge_cost(edge_data, current_time, traffic_predictions, edge_key, alpha, beta, gamma, delta) ==
    LET w               == time_dependent_weight(edge_data, current_time,
                                                 traffic_predictions, edge_key)
        travel_time_s   == w.travel_time
        pred_speed      == w.speed
        length_m        == edge_data.length_m
        free_flow_speed == edge_data.free_flow_speed_kmh
        congestion      == IF free_flow_speed > 0
                           THEN Max(0, Min(1000, 1000 - (1000 * pred_speed) \div free_flow_speed))
                           ELSE 0
        co2_grams       == (((length_m * emission_factor(pred_speed)) \div 1000)
                            * (2000 + congestion)) \div 2000
        detour_ratio    == 0
        cost            == IF travel_time_s = Inf
                           THEN (IF alpha > 0 THEN Inf ELSE NaN)
                           ELSE (alpha * travel_time_s) \div 60
                                + (beta * co2_grams) \div 10
                                + (gamma * congestion) \div 10
                                + delta * detour_ratio
    IN  [cost          |-> cost,
         travel_time_s |-> travel_time_s,
         speed_kmh     |-> pred_speed,
         co2_grams     |-> co2_grams,
         congestion    |-> congestion,
         distance_m    |-> length_m]

----------------------------------------------------------------------------
(* The road graph: networkx DiGraph.  nodes, lng (node attribute; lat = 0)  *)
(* and edges in insertion order, each with the attributes the builder sets. *)

\* graph_builder.py: an edge between two nodes gets length_m = haversine of
\* its endpoints, capacity = lanes * 1800
Edge(lng, u, v, speed_kmh, lanes) ==
    [u |-> u, v |-> v,
     length_m |-> haversine(lng[u], lng[v]),
     free_flow_speed_kmh |-> speed_kmh,
     capacity |-> lanes * 1800]

has_edge(G, u, v) == \E i \in 1..Len(G.edges) : G.edges[i].u = u /\ G.edges[i].v = v

\* G.edges[u, v]: the attributes of the edge u -> v
edge_attrs(G, u, v) ==
    G.edges[CHOOSE i \in 1..Len(G.edges) : G.edges[i].u = u /\ G.edges[i].v = v]

\* G.successors(u), in adjacency (insertion) order
successors(G, u) ==
    LET idx == SelectSeq([i \in 1..Len(G.edges) |-> i], LAMBDA i : G.edges[i].u = u)
    IN  [k \in 1..Len(idx) |-> G.edges[idx[k]].v]

\* f"{u}-{v}": distinct for distinct pairs of node ids
make_edge_key(u, v) == <<u, v>>

\* heuristic(): haversine / v_max_ms, a number of seconds (here in 0.0001 s)
heuristic(G, node, goal) ==
    IF v_max_kmh > 0 THEN (haversine(G.lng[node], G.lng[goal]) * 36000) \div v_max_kmh ELSE Inf

----------------------------------------------------------------------------
(* algorithms/orion.py: orion_route.  A query q holds the arguments; a      *)
(* search record s holds the locals.  SearchStep is one iteration of the    *)
(* while loop.                                                              *)

\* lines 349-371: the state at the loop's first test
InitSearch(G, q) ==
    IF q.start \notin G.nodes \/ q.goal \notin G.nodes
    THEN [status |-> "returned", result |-> None, open_set |-> {}, counter |-> 0,
          g_scores |-> <<>>, came_from |-> <<>>, arrival_times |-> <<>>,
          edge_details |-> <<>>, visited |-> {},
          max_iterations |-> q.max_iterations, nodes_explored |-> 0]
    ELSE [status |-> "loop", result |-> None,
          open_set |-> {[f |-> heuristic(G, q.start, q.goal), counter |-> 0,
                         node |-> q.start, time |-> q.departure_time, g |-> 0]},
          counter |-> 0,
          g_scores |-> (q.start :> 0),
          came_from |-> <<>>,
          arrival_times |-> (q.start :> q.departure_time),
          edge_details |-> <<>>,
          visited |-> {},
          max_iterations |-> q.max_iterations, nodes_explored |-> 0]

\* heapq.heappop: the least entry in tuple order; counter values are unique
HeapMin(open_set) ==
    CHOOSE e \in open_set : \A o \in open_set :
        e.f < o.f \/ (e.f = o.f /\ e.counter <= o.counter)

\* lines 383-389: walk came_from back from goal, then append start
RECURSIVE ChainBack(_, _)
ChainBack(came_from, node) ==
    IF node \in DOMAIN came_from
    THEN Append(ChainBack(came_from, came_from[node]), node)
    ELSE <<>>

\* the path built from the goal outwards with the goal put in unconditionally
ReconstructPath_GoalTwice(came_from, start, goal) ==
    IF goal \in DOMAIN came_from THEN <<start>> \o ChainBack(came_from, goal)
    ELSE <<start, goal>>

\* the path left in the order it was collected, goal first (no line 389)
ReconstructPath_NoReverse(came_from, start, goal) ==
    LET path == <<start>> \o ChainBack(came_from, goal)
    IN  [k \in 1..Len(path) |-> path[Len(path) + 1 - k]]

ReconstructPath(came_from, start, goal) == <<start>> \o ChainBack(came_from, goal)

\* lines 402-426: one segment per consecutive pair that is an edge of G
RECURSIVE BuildSegments(_, _, _, _)
BuildSegments(G, path, edge_details, i) ==
    IF i > Len(path) - 1 THEN <<>>
    ELSE IF ~has_edge(G, path[i], path[i + 1])
    THEN BuildSegments(G, path, edge_details, i + 1)
    ELSE LET edge_data == edge_attrs(G, path[i], path[i + 1])
             seg_dist  == edge_data.length_m
             known     == path[i + 1] \in DOMAIN edge_details
             info      == edge_details[path[i + 1]]
             seg_speed == IF known THEN info.speed_kmh ELSE 400
             seg_time  == IF known THEN info.travel_time_s ELSE (seg_dist * 3600) \div 400
             seg_co2   == IF known THEN info.co2_grams
                          ELSE (seg_dist * emission_factor(seg_speed)) \div 1000
             seg_cong  == IF known THEN info.congestion ELSE 0
         IN  <<[from_node |-> path[i], to_node |-> path[i + 1],
                distance_m |-> seg_dist, travel_time_s |-> seg_time,
                speed_kmh |-> seg_speed, co2_g |-> seg_co2,
                congestion |-> seg_cong]>>
             \o BuildSegments(G, path, edge_details, i + 1)

RECURSIVE SumField(_, _)
SumField(segs, field) ==
    IF segs = <<>> THEN 0 ELSE segs[1][field] + SumField(Tail(segs), field)

\* lines 379-450: the route returned when the goal is popped
\* BuildResult with the arrival counted from the end of the search
BuildResult_ClockedArrival(G, q, s, current_g, nodes_explored) ==
    LET path     == ReconstructPath(s.came_from, q.start, q.goal)
        segments == BuildSegments(G, path, s.edge_details, 1)
    IN  [path_nodes    |-> path,
         distanceKm    |-> SumField(segments, "distance_m"),
         durationMin   |-> RoundDiv(SumField(segments, "travel_time_s"), 60),
         co2Grams      |-> SumField(segments, "co2_g"),
         cost          |-> current_g,
         nodesExplored |-> nodes_explored,
         searchTimeMs  |-> q.search_time_ms,
         segments      |-> [k \in 1..Len(segments) |->
                              [segments[k] EXCEPT !.travel_time_s = RoundDiv(@, 10)]],
         weights       |-> [alpha |-> q.alpha, beta |-> q.beta,
                            gamma |-> q.gamma, delta |-> q.delta],
         departureTime |-> q.departure_time,
         arrivalTime   |-> s.arrival_times[q.goal] + q.search_time_ms]

BuildResult(G, q, s, current_g, nodes_explored) ==
    LET path     == ReconstructPath(s.came_from, q.start, q.goal)
        segments == BuildSegments(G, path, s.edge_details, 1)
    IN  [path_nodes    |-> path,
         distanceKm    |-> SumField(segments, "distance_m"),
         durationMin   |-> RoundDiv(SumField(segments, "travel_time_s"), 60),
         co2Grams      |-> SumField(segments, "co2_g"),
         cost          |-> current_g,
         nodesExplored |-> nodes_explored,
         searchTimeMs  |-> q.search_time_ms,
         segments      |-> [k \in 1..Len(segments) |->
                              [segments[k] EXCEPT !.travel_time_s = RoundDiv(@, 10)]],
         weights       |-> [alpha |-> q.alpha, beta |-> q.beta,
                            gamma |-> q.gamma, delta |-> q.delta],
         departureTime |-> q.departure_time,
         arrivalTime   |-> s.arrival_times[q.goal]]

\* the relaxation without lines 458-459: a closed neighbour is relaxed again
RECURSIVE Relax_ReopensClosed(_, _, _, _, _, _, _)
Relax_ReopensClosed(SG, G, q, s, cur, succ, i) ==
    IF i > Len(succ) THEN s
    ELSE LET neighbor == succ[i]
         IN  IF FALSE THEN s
             ELSE LET edge_data == edge_attrs(SG, cur.node, neighbor)
                      breakdown == extended_edge_cost(edge_data, cur.time,
                                       q.traffic_predictions,
                                       make_edge_key(cur.node, neighbor),
                                       q.alpha, q.beta, q.gamma, q.delta)
                      g_new     == FAdd(cur.g, breakdown.cost)
                  IN  IF FLess(g_new, Get(s.g_scores, neighbor, Inf))
                      THEN LET t_arrival == cur.time + breakdown.travel_time_s
                               s2 == [s EXCEPT
                                   !.g_scores = (neighbor :> g_new) @@ @,
                                   !.arrival_times = (neighbor :> t_arrival) @@ @,
                                   !.came_from = (neighbor :> cur.node) @@ @,
                                   !.edge_details = (neighbor :> breakdown) @@ @,
                                   !.counter = @ + 1,
                                   !.open_set = @ \cup
                                       {[f |-> g_new + heuristic(G, neighbor, q.goal),
                                         counter |-> s.counter + 1,
                                         node |-> neighbor, time |-> t_arrival,
                                         g |-> g_new]}]
                           IN  Relax_ReopensClosed(SG, G, q, s2, cur, succ, i + 1)
                      ELSE Relax_ReopensClosed(SG, G, q, s, cur, succ, i + 1)

\* Relax pricing every edge at the departure time
RECURSIVE Relax_ClockAtDeparture(_, _, _, _, _, _, _)
Relax_ClockAtDeparture(SG, G, q, s, cur, succ, i) ==
    IF i > Len(succ) THEN s
    ELSE LET neighbor == succ[i]
         IN  IF neighbor \in s.visited THEN Relax_ClockAtDeparture(SG, G, q, s, cur, succ, i + 1)
             ELSE LET edge_data == edge_attrs(SG, cur.node, neighbor)
                      breakdown == extended_edge_cost(edge_data, q.departure_time,
                                       q.traffic_predictions,
                                       make_edge_key(cur.node, neighbor),
                                       q.alpha, q.beta, q.gamma, q.delta)
                      g_new     == FAdd(cur.g, breakdown.cost)
                  IN  IF FLess(g_new, Get(s.g_scores, neighbor, Inf))
                      THEN LET t_arrival == cur.time + breakdown.travel_time_s
                               s2 == [s EXCEPT
                                   !.g_scores = (neighbor :> g_new) @@ @,
                                   !.arrival_times = (neighbor :> t_arrival) @@ @,
                                   !.came_from = (neighbor :> cur.node) @@ @,
                                   !.edge_details = (neighbor :> breakdown) @@ @,
                                   !.counter = @ + 1,
                                   !.open_set = @ \cup
                                       {[f |-> g_new + heuristic(G, neighbor, q.goal),
                                         counter |-> s.counter + 1,
                                         node |-> neighbor, time |-> t_arrival,
                                         g |-> g_new]}]
                           IN  Relax_ClockAtDeparture(SG, G, q, s2, cur, succ, i + 1)
                      ELSE Relax_ClockAtDeparture(SG, G, q, s, cur, succ, i + 1)

\* lines 457-486: relax the successors of current from position i on
RECURSIVE Relax(_, _, _, _, _, _, _)
Relax(SG, G, q, s, cur, succ, i) ==
    IF i > Len(succ) THEN s
    ELSE LET neighbor == succ[i]
         IN  IF neighbor \in s.visited THEN Relax(SG, G, q, s, cur, succ, i + 1)
             ELSE LET edge_data == edge_attrs(SG, cur.node, neighbor)
                      breakdown == extended_edge_cost(edge_data, cur.time,
                                       q.traffic_predictions,
                                       make_edge_key(cur.node, neighbor),
                                       q.alpha, q.beta, q.gamma, q.delta)
                      g_new     == FAdd(cur.g, breakdown.cost)
                  IN  IF FLess(g_new, Get(s.g_scores, neighbor, Inf))
                      THEN LET t_arrival == cur.time + breakdown.travel_time_s
                               s2 == [s EXCEPT
                                   !.g_scores = (neighbor :> g_new) @@ @,
                                   !.arrival_times = (neighbor :> t_arrival) @@ @,
                                   !.came_from = (neighbor :> cur.node) @@ @,
                                   !.edge_details = (neighbor :> breakdown) @@ @,
                                   !.counter = @ + 1,
                                   !.open_set = @ \cup
                                       {[f |-> g_new + heuristic(G, neighbor, q.goal),
                                         counter |-> s.counter + 1,
                                         node |-> neighbor, time |-> t_arrival,
                                         g |-> g_new]}]
                           IN  Relax(SG, G, q, s2, cur, succ, i + 1)
                      ELSE Relax(SG, G, q, s, cur, succ, i + 1)

\* the loop without line 374, max_iterations -= 1
SearchStep_NoCountdown(SG, G, q, s) ==
    IF s.open_set = {} \/ s.max_iterations <= 0
    THEN [s EXCEPT !.status = "returned", !.result = None]
    ELSE LET cur == HeapMin(s.open_set)
             s1  == [s EXCEPT !.nodes_explored = @ + 1,
                              !.open_set = @ \ {cur}]
         IN  IF cur.node = q.goal
             THEN [s1 EXCEPT !.status = "returned",
                             !.result = BuildResult(G, q, s1, cur.g, s1.nodes_explored)]
             ELSE IF cur.node \in s1.visited THEN s1
             ELSE Relax(SG, G, q, [s1 EXCEPT !.visited = @ \cup {cur.node}],
                        cur, successors(SG, cur.node), 1)

\* the loop's exit returning an empty route where the code returns None
SearchStep_EmptyRoute(SG, G, q, s) ==
    IF s.open_set = {} \/ s.max_iterations <= 0
    THEN [s EXCEPT !.status = "returned", !.result = [path_nodes |-> <<>>]]
    ELSE LET cur == HeapMin(s.open_set)
             s1  == [s EXCEPT !.max_iterations = @ - 1,
                              !.nodes_explored = @ + 1,
                              !.open_set = @ \ {cur}]
         IN  IF cur.node = q.goal
             THEN [s1 EXCEPT !.status = "returned",
                             !.result = BuildResult(G, q, s1, cur.g, s1.nodes_explored)]
             ELSE IF cur.node \in s1.visited THEN s1
             ELSE Relax(SG, G, q, [s1 EXCEPT !.visited = @ \cup {cur.node}],
                        cur, successors(SG, cur.node), 1)

\* lines 373-488: one iteration of the while loop (or its exit)
SearchStep(SG, G, q, s) ==
    IF s.open_set = {} \/ s.max_iterations <= 0
    THEN [s EXCEPT !.status = "returned", !.result = None]
    ELSE LET cur == HeapMin(s.open_set)
             s1  == [s EXCEPT !.max_iterations = @ - 1,
                              !.nodes_explored = @ + 1,
                              !.open_set = @ \ {cur}]
         IN  IF cur.node = q.goal
             THEN [s1 EXCEPT !.status = "returned",
                             !.result = BuildResult(G, q, s1, cur.g, s1.nodes_explored)]
             ELSE IF cur.node \in s1.visited THEN s1
             ELSE Relax(SG, G, q, [s1 EXCEPT !.visited = @ \cup {cur.node}],
                        cur, successors(SG, cur.node), 1)

RECURSIVE RunSearch(_, _, _, _)
RunSearch(SG, G, q, s) ==
    IF s.status = "returned" THEN s ELSE RunSearch(SG, G, q, SearchStep(SG, G, q, s))

\* orion_route without a contraction hierarchy: search_graph = G
orion_route(G, q) == RunSearch(G, G, q, InitSearch(G, q)).result

-----------------------------------------------------------------------------
(* algorithms/orion.py: class ContractionHierarchy.  A graph given to it     *)
(* carries node_list, the order in which G.nodes() yields its nodes.         *)

\* G.predecessors(n), in insertion order
predecessors(G, n) ==
    LET idx == SelectSeq([i \in 1..Len(G.edges) |-> i], LAMBDA i : G.edges[i].v = n)
    IN  [k \in 1..Len(idx) |-> G.edges[idx[k]].u]

\* lines 210-216: edge_diff = in * out - (in + out)
node_importance(G, node) ==
    LET in_degree  == Len(predecessors(G, node))
        out_degree == Len(successors(G, node))
    IN  in_degree * out_degree - (in_degree + out_degree)

\* line 219: sorted() is stable, so equal importance keeps G.nodes() order
ordered_nodes(G) ==
    LET L       == G.node_list
        Less(j, i) == \/ node_importance(G, L[j]) < node_importance(G, L[i])
                      \/ (node_importance(G, L[j]) = node_importance(G, L[i]) /\ j < i)
        rank(i) == Cardinality({j \in 1..Len(L) : Less(j, i)}) + 1
    IN  [k \in 1..Len(L) |-> L[CHOOSE i \in 1..Len(L) : rank(i) = k]]

\* nx add_edge: a new edge is appended, an existing one has its attributes
\* overwritten in place
add_edge(G, e) ==
    IF has_edge(G, e.u, e.v)
    THEN [G EXCEPT !.edges = [i \in 1..Len(G.edges) |->
                                IF G.edges[i].u = e.u /\ G.edges[i].v = e.v
                                THEN e ELSE G.edges[i]]]
    ELSE [G EXCEPT !.edges = Append(@, e)]

\* lines 247-250 and 253-256: record the shortcut and put its edge in
AddShortcut(st, pred, succ, w_through, node) ==
    [shortcuts  |-> Append(st.shortcuts,
                        [u |-> pred, v |-> succ, weight |-> w_through, via |-> node]),
     temp_graph |-> add_edge(st.temp_graph,
                        [u |-> pred, v |-> succ, length_m |-> w_through,
                         free_flow_speed_kmh |-> 600, capacity |-> 3600,
                         is_shortcut |-> TRUE, via |-> node])]

\* lines 239-256, for one pair (pred, succ) that passed the loops' filters
ConsiderShortcut(st, pred, node, succ) ==
    IF has_edge(st.temp_graph, pred, node) /\ has_edge(st.temp_graph, node, succ)
    THEN LET w_through == edge_attrs(st.temp_graph, pred, node).length_m
                          + edge_attrs(st.temp_graph, node, succ).length_m
         IN  IF has_edge(st.temp_graph, pred, succ)
             THEN IF w_through < edge_attrs(st.temp_graph, pred, succ).length_m
                  THEN AddShortcut(st, pred, succ, w_through, node)
                  ELSE st
             ELSE AddShortcut(st, pred, succ, w_through, node)
    ELSE st

\* the nested loops without the tests for contracted neighbours (lines 235, 238)
RECURSIVE ContractPairs_KeepsContracted(_, _, _, _, _, _, _)
ContractPairs_KeepsContracted(st, node, contracted, preds, succs, i, j) ==
    IF i > Len(preds) THEN st
    ELSE IF preds[i] = node \/ j > Len(succs)
    THEN ContractPairs_KeepsContracted(st, node, contracted, preds, succs, i + 1, 1)
    ELSE IF succs[j] = node \/ preds[i] = succs[j]
    THEN ContractPairs_KeepsContracted(st, node, contracted, preds, succs, i, j + 1)
    ELSE ContractPairs_KeepsContracted(ConsiderShortcut(st, preds[i], node, succs[j]),
                       node, contracted, preds, succs, i, j + 1)

\* lines 234-256: the two nested loops over the lists taken at lines 231-232
RECURSIVE ContractPairs(_, _, _, _, _, _, _)
ContractPairs(st, node, contracted, preds, succs, i, j) ==
    IF i > Len(preds) THEN st
    ELSE IF preds[i] \in contracted \/ preds[i] = node \/ j > Len(succs)
    THEN ContractPairs(st, node, contracted, preds, succs, i + 1, 1)
    ELSE IF succs[j] \in contracted \/ succs[j] = node \/ preds[i] = succs[j]
    THEN ContractPairs(st, node, contracted, preds, succs, i, j + 1)
    ELSE ContractPairs(ConsiderShortcut(st, preds[i], node, succs[j]),
                       node, contracted, preds, succs, i, j + 1)

\* lines 187-192: ContractionHierarchy(G), with preprocess's locals
NewHierarchy(max_nodes) ==
    [node_order |-> <<>>, shortcuts |-> <<>>, contracted_graph |-> None,
     is_preprocessed |-> FALSE,
     phase |-> "new", max_nodes |-> max_nodes, ordered |-> <<>>, next |-> 1,
     contracted |-> {}, temp_graph |-> None]

\* lines 268-275: _partial_preprocess
partial_preprocess(ch, G) ==
    [ch EXCEPT !.node_order = [n \in G.nodes |->
                                 (CHOOSE i \in 1..Len(G.node_list) : G.node_list[i] = n) - 1],
               !.contracted_graph = G,
               !.is_preprocessed = TRUE,
               !.phase = "done"]

\* lines 198-227: the node order and the copy of the graph
begin_preprocess(ch, G) ==
    [ch EXCEPT !.node_order = [n \in G.nodes |->
                                 (CHOOSE i \in 1..Len(G.node_list) : ordered_nodes(G)[i] = n) - 1],
               !.ordered = SubSeq(ordered_nodes(G), 1, Min(Len(G.node_list), ch.max_nodes)),
               !.temp_graph = G,
               !.phase = "contracting"]

\* lines 229-258: one pass of the loop over ordered_nodes[:max_nodes]
contract_node(ch) ==
    LET node == ch.ordered[ch.next]
        st   == ContractPairs([shortcuts |-> ch.shortcuts, temp_graph |-> ch.temp_graph],
                              node, ch.contracted,
                              predecessors(ch.temp_graph, node),
                              successors(ch.temp_graph, node), 1, 1)
    IN  [ch EXCEPT !.shortcuts = st.shortcuts,
                   !.temp_graph = st.temp_graph,
                   !.contracted = @ \cup {node},
                   !.next = @ + 1]

\* lines 260-261
finish_preprocess(ch) ==
    [ch EXCEPT !.contracted_graph = ch.temp_graph,
               !.is_preprocessed = TRUE,
               !.phase = "done"]

-----------------------------------------------------------------------------
(* algorithms/orion.py: orion_route, as called                               *)

\* line 353: the graph the search runs on
search_graph(ch, G) ==
    IF ch # None /\ ch.is_preprocessed THEN ch.contracted_graph ELSE G

----------------------------------------------------------------------------
(* Road graphs of the scenarios.  Nodes lie on the equator, lng in 0.001    *)
(* degree; Edge() gives each edge the length the builder computes.          *)

\* A(0,0), B(0,0.01), C(0,0.02): A->B and B->C at 60 km/h, A->C at 120 km/h
Triangle ==
    LET lng == (1 :> 0) @@ (2 :> 10) @@ (3 :> 20)
    IN  [nodes |-> {1, 2, 3}, node_list |-> <<1, 2, 3>>, lng |-> lng,
         edges |-> <<Edge(lng, 1, 2, 600, 1), Edge(lng, 1, 3, 1200, 2),
                     Edge(lng, 2, 3, 600, 1)>>]

\* a direct road 1->3 (120 km/h) beside a slower one through 2; node 4 has
\* no incoming edge, node 5 is isolated
Bypass ==
    LET lng == (1 :> 0) @@ (2 :> 16) @@ (3 :> 20) @@ (4 :> 30) @@ (5 :> 40)
    IN  [nodes |-> {1, 2, 3, 4, 5}, node_list |-> <<1, 2, 3, 4, 5>>, lng |-> lng,
         edges |-> <<Edge(lng, 1, 3, 1200, 2), Edge(lng, 1, 2, 400, 1),
                     Edge(lng, 2, 3, 600, 1), Edge(lng, 3, 2, 600, 1),
                     Edge(lng, 4, 3, 600, 1)>>]

\* a one-way road of 21 nodes towards node 21; DescentRemaining[k] is the
\* distance (0.001 degree) left from node k, at most 0.8 of that from k - 1
DescentRemaining ==
    <<185, 148, 118, 94, 75, 60, 48, 38, 30, 24, 19, 15, 12, 9, 7, 5, 4, 3, 2, 1, 0>>

Descent ==
    LET lng == [k \in 1..21 |-> 185 - DescentRemaining[k]]
    IN  [nodes |-> 1..21, node_list |-> [k \in 1..21 |-> k], lng |-> lng,
         edges |-> [k \in 1..20 |-> Edge(lng, k, k + 1, 600, 1)]]

\* a one-way line 1->2->3->4->5 of equal lengths, its nodes inserted in the
\* given order
Line(node_list) ==
    LET lng == (1 :> 0) @@ (2 :> 10) @@ (3 :> 20) @@ (4 :> 30) @@ (5 :> 40)
    IN  [nodes |-> {1, 2, 3, 4, 5}, node_list |-> node_list, lng |-> lng,
         edges |-> [k \in 1..4 |-> Edge(lng, k, k + 1, 600, 1)]]

\* two ways from 1 to 3, the long one through 4 and the short one through 2,
\* with roads back; 4 is inserted (and so contracted) before 2
Diamond ==
    LET lng == (1 :> 0) @@ (2 :> 10) @@ (3 :> 20) @@ (4 :> 30)
    IN  [nodes |-> {1, 2, 3, 4}, node_list |-> <<4, 2, 1, 3>>, lng |-> lng,
         edges |-> <<Edge(lng, 1, 4, 600, 1), Edge(lng, 4, 3, 600, 1),
                     Edge(lng, 4, 1, 600, 1), Edge(lng, 1, 2, 600, 1),
                     Edge(lng, 2, 3, 600, 1), Edge(lng, 3, 2, 600, 1),
                     Edge(lng, 3, 1, 600, 1)>>]

\* the direct road 1->3 has free_flow_speed 0 and the only road to 4 a
\* negative one; 3 is also reached through 2, and the dead end 5 both by a
\* slow road from 1 and by a fast one from 2
Blocked ==
    LET lng == (1 :> 0) @@ (2 :> 10) @@ (3 :> 20) @@ (4 :> 30) @@ (5 :> -10)
    IN  [nodes |-> {1, 2, 3, 4, 5}, node_list |-> <<1, 2, 3, 4, 5>>, lng |-> lng,
         edges |-> <<Edge(lng, 1, 3, 0, 1), Edge(lng, 1, 2, 600, 1),
                     Edge(lng, 2, 3, 600, 1), Edge(lng, 3, 4, -100, 1),
                     Edge(lng, 1, 5, 100, 1), Edge(lng, 2, 5, 600, 1)>>]

GraphNames == {"triangle", "bypass"}

\* graphs a contraction hierarchy is built for
CHGraphNames == {"line", "line_3_first", "line_1_fourth", "diamond", "bypass"}

GraphOf(name) ==
    IF name = "triangle" THEN Triangle
    ELSE IF name = "bypass" THEN Bypass
    ELSE IF name = "line" THEN Line(<<1, 2, 3, 4, 5>>)
    ELSE IF name = "line_3_first" THEN Line(<<3, 1, 2, 4, 5>>)
    ELSE IF name = "line_1_fourth" THEN Line(<<2, 3, 4, 1, 5>>)
    ELSE IF name = "diamond" THEN Diamond
    ELSE IF name = "blocked" THEN Blocked
    ELSE Descent

\* node ids a caller may pass; 9 is a node of no graph
NodeIds == {1, 2, 3, 4, 9}

\* departure times: 03:00, 08:00, 10:00, 20:00
DepartureTimes == {3 * 360000, 8 * 360000, 10 * 360000, 20 * 360000}

\* weight vectors (alpha, beta, gamma, delta): time only, and the presets
TimeOnly == [alpha |-> 100, beta |-> 0, gamma |-> 0, delta |-> 0]

presets ==
    <<[name |-> "fastest",   alpha |-> 80, beta |-> 10, gamma |-> 5,  delta |-> 5],
      [name |-> "greenest",  alpha |-> 15, beta |-> 65, gamma |-> 15, delta |-> 5],
      [name |-> "balanced",  alpha |-> 40, beta |-> 30, gamma |-> 20, delta |-> 10],
      [name |-> "smoothest", alpha |-> 30, beta |-> 10, gamma |-> 55, delta |-> 5]>>

WeightsOf(p) == [alpha |-> p.alpha, beta |-> p.beta, gamma |-> p.gamma, delta |-> p.delta]

WeightVectors == {TimeOnly} \cup {WeightsOf(presets[i]) : i \in 1..Len(presets)}

\* prediction maps: none, and the direct road 1->3 predicted at 20 or 40 km/h
PredictionMaps == {<<>>, (make_edge_key(1, 3) :> 200), (make_edge_key(1, 3) :> 400)}

\* what time_module.time() - search_start measures in a run (lines 371 and
\* 380), in 0.1 ms: the wall clock is the environment's, not the caller's
SearchTimes == {0, 3}

\* orion_route's max_iterations parameter (default 150000)
astar_max_iterations == 150000

\* search_time_ms is 0 unless a specification draws it
MakeQuery(start, goal, departure_time, w, preds) ==
    [start |-> start, goal |-> goal, departure_time |-> departure_time,
     alpha |-> w.alpha, beta |-> w.beta, gamma |-> w.gamma, delta |-> w.delta,
     traffic_predictions |-> preds, max_iterations |-> astar_max_iterations,
     search_time_ms |-> 0]

NoQuery == [none |-> TRUE]

NoSearch == [none |-> TRUE]

NoResponse == [kind |-> "none"]

\* no contraction hierarchy was built (main.py line 73) and no replan_route
\* call is in flight
Quiet ==
    /\ contraction_hierarchy = None
    /\ tasks = <<>>
    /\ running = 0

----------------------------------------------------------------------------
(* Spec: one orion_route call, an iteration of its loop at a time *)

Init ==
    /\ road_graph \in GraphNames
    /\ \E start \in NodeIds, goal \in NodeIds,
          t \in DepartureTimes, w \in WeightVectors, preds \in PredictionMaps,
          ms \in SearchTimes :
          query = [MakeQuery(start, goal, t, w, preds) EXCEPT !.search_time_ms = ms]
    /\ search = InitSearch(GraphOf(road_graph), query)
    /\ replan_engines = <<>>
    /\ response = NoResponse
    /\ drive = 0
    /\ Quiet

Looping == search.status = "loop"

LoopTest == search.open_set # {} /\ search.max_iterations > 0

\* a loop pass that also notes the popped pair in the hierarchy it was given
Step_NotesInHierarchy ==
    /\ search' = SearchStep(search_graph(contraction_hierarchy, GraphOf(road_graph)),
                            GraphOf(road_graph), query, search)
    /\ contraction_hierarchy' =
          IF contraction_hierarchy # None /\ contraction_hierarchy.is_preprocessed
          THEN [contraction_hierarchy EXCEPT !.shortcuts =
                   Append(@, [u |-> query.start, v |-> query.goal, weight |-> 0,
                              via |-> query.start])]
          ELSE contraction_hierarchy
    /\ UNCHANGED <<road_graph, query, replan_engines, response, drive, tasks, running>>

Step ==
    /\ search' = SearchStep(search_graph(contraction_hierarchy, GraphOf(road_graph)),
                            GraphOf(road_graph), query, search)
    /\ UNCHANGED <<road_graph, query, replan_engines, response, drive,
                   contraction_hierarchy, tasks, running>>

\* the while condition fails: return None (line 488)
ReturnNone == Looping /\ ~LoopTest /\ Step

\* the goal is popped: build and return the route (lines 379-450)
PopGoal == Looping /\ LoopTest /\ HeapMin(search.open_set).node = query.goal /\ Step

\* a node already closed is popped: continue (lines 452-453)
PopVisited ==
    /\ Looping /\ LoopTest
    /\ HeapMin(search.open_set).node # query.goal
    /\ HeapMin(search.open_set).node \in search.visited
    /\ Step

\* a node is closed and its successors relaxed (lines 454-486)
Expand ==
    /\ Looping /\ LoopTest
    /\ HeapMin(search.open_set).node # query.goal
    /\ HeapMin(search.open_set).node \notin search.visited
    /\ Step

Next == ReturnNone \/ PopGoal \/ PopVisited \/ Expand

Spec == Init /\ [][Next]_vars

----------------------------------------------------------------------------
(* SpecCap: orion_route calls with a small max_iterations, the loop running *)
(* on until the call returns                                                *)

\* the largest max_iterations a caller passes here
MaxCap == 4

InitCap ==
    /\ road_graph \in GraphNames
    /\ \E start \in NodeIds, goal \in NodeIds, w \in WeightVectors, cap \in 0..MaxCap :
          query = [MakeQuery(start, goal, 10 * 360000, w, <<>>)
                      EXCEPT !.max_iterations = cap]
    /\ search = InitSearch(GraphOf(road_graph), query)
    /\ replan_engines = <<>>
    /\ response = NoResponse
    /\ drive = 0
    /\ Quiet

\* the call is one synchronous loop: nothing keeps an iteration from running
SpecCap == InitCap /\ [][Next]_vars /\ WF_vars(Next)

-----------------------------------------------------------------------------
(* Specification SpecBlocked: orion_route on a graph with roads of no speed  *)

\* weights with alpha = 0: CO2 only
CO2Only == [alpha |-> 0, beta |-> 100, gamma |-> 0, delta |-> 0]

\* no predictions; the road 1->3 predicted at 0 (no use) or at 30 km/h
BlockedPredictions ==
    {<<>>, (make_edge_key(1, 3) :> 0), (make_edge_key(1, 3) :> 300)}

\* departures at 03:00, 08:00 and 08:59:30, half a minute before the
\* rush hour ends
BlockedDepartures == {3 * 360000, 8 * 360000, 8 * 360000 + 59 * 6000 + 3000}

InitBlocked ==
    /\ road_graph = "blocked"
    /\ \E start \in {1, 2}, goal \in {3, 4}, t \in BlockedDepartures,
          w \in {TimeOnly, WeightsOf(presets[2]), CO2Only}, preds \in BlockedPredictions :
          query = MakeQuery(start, goal, t, w, preds)
    /\ search = InitSearch(GraphOf(road_graph), query)
    /\ replan_engines = <<>>
    /\ response = NoResponse
    /\ drive = 0
    /\ Quiet

SpecBlocked == InitBlocked /\ [][Next]_vars

-----------------------------------------------------------------------------
(* Specification SpecCH: startup builds the hierarchy (main.py lines 135-    *)
(* 136), one contracted node per step, and then a route is planned with it.  *)

\* preprocess's max_nodes: main.py passes 3000; 3 is below every graph here
MaxNodes == {3, 3000}

IdleSearch == [status |-> "idle", result |-> None]

InitCH ==
    /\ road_graph \in CHGraphNames
    /\ \E m \in MaxNodes : contraction_hierarchy = NewHierarchy(m)
    /\ query = NoQuery
    /\ search = IdleSearch
    /\ replan_engines = <<>>
    /\ response = NoResponse
    /\ drive = 0
    /\ tasks = <<>>
    /\ running = 0

\* lines 198-202: the graph is larger than max_nodes
PartialPreprocess ==
    /\ contraction_hierarchy.phase = "new"
    /\ Cardinality(GraphOf(road_graph).nodes) > contraction_hierarchy.max_nodes
    /\ contraction_hierarchy' = partial_preprocess(contraction_hierarchy, GraphOf(road_graph))
    /\ UNCHANGED <<road_graph, query, search, replan_engines, response, drive, tasks, running>>

BeginPreprocess ==
    /\ contraction_hierarchy.phase = "new"
    /\ Cardinality(GraphOf(road_graph).nodes) <= contraction_hierarchy.max_nodes
    /\ contraction_hierarchy' = begin_preprocess(contraction_hierarchy, GraphOf(road_graph))
    /\ UNCHANGED <<road_graph, query, search, replan_engines, response, drive, tasks, running>>

ContractNode ==
    /\ contraction_hierarchy.phase = "contracting"
    /\ contraction_hierarchy.next <= Len(contraction_hierarchy.ordered)
    /\ contraction_hierarchy' = contract_node(contraction_hierarchy)
    /\ UNCHANGED <<road_graph, query, search, replan_engines, response, drive, tasks, running>>

FinishPreprocess ==
    /\ contraction_hierarchy.phase = "contracting"
    /\ contraction_hierarchy.next > Len(contraction_hierarchy.ordered)
    /\ contraction_hierarchy' = finish_preprocess(contraction_hierarchy)
    /\ UNCHANGED <<road_graph, query, search, replan_engines, response, drive, tasks, running>>

\* start and end nodes and weights of the routes planned with the hierarchy
CHStarts == {1, 3}

CHGoals == {3, 4, 5}

CHWeights == {TimeOnly, WeightsOf(presets[2])}

\* predictions given with the request: none, or the road 2->3 at 30 km/h
CHPredictions == {<<>>, (make_edge_key(2, 3) :> 300)}

\* orion_route(..., ch=contraction_hierarchy) is called (main.py line 453)
PlanWithCH ==
    /\ contraction_hierarchy.phase = "done"
    /\ search = IdleSearch
    /\ \E start \in CHStarts, goal \in CHGoals, w \in CHWeights, preds \in CHPredictions :
          query' = MakeQuery(start, goal, 10 * 360000, w, preds)
    /\ search' = InitSearch(GraphOf(road_graph), query')
    /\ UNCHANGED <<road_graph, replan_engines, response, drive,
                   contraction_hierarchy, tasks, running>>

NextCH ==
    \/ PartialPreprocess \/ BeginPreprocess \/ ContractNode \/ FinishPreprocess
    \/ PlanWithCH
    \/ ReturnNone \/ PopGoal \/ PopVisited \/ Expand

SpecCH == InitCH /\ [][NextCH]_vars

----------------------------------------------------------------------------
(* algorithms/orion.py: ReplanningEngine *)

\* "no time yet": last_replan_time is None
NoTime == -1

\* constructor defaults: 45.0 s, 0.15 (in hundredths), 20
replan_interval_s == 4500

hysteresis_threshold == 15

max_replans == 20

\* ReplanningEngine(): lines 514-526
NewEngine ==
    [replan_interval_s |-> replan_interval_s,
     hysteresis_threshold |-> hysteresis_threshold,
     max_replans |-> max_replans,
     replan_count |-> 0,
     last_replan_time |-> NoTime,
     current_route |-> None,
     route_history |-> <<>>]

\* should_replan without the ceiling test of lines 544-545
should_replan_NoCeiling(self, current_time, traffic_change_pct, is_off_route, incident_on_route) ==
    IF self.last_replan_time = NoTime THEN TRUE
    ELSE IF current_time - self.last_replan_time >= self.replan_interval_s THEN TRUE
    ELSE IF traffic_change_pct > 20 THEN TRUE
    ELSE IF is_off_route THEN TRUE
    ELSE IF incident_on_route THEN TRUE
    ELSE FALSE

\* should_replan with the ceiling test off by one (> for >=)
should_replan_CeilingOffByOne(self, current_time, traffic_change_pct, is_off_route, incident_on_route) ==
    IF self.replan_count > self.max_replans THEN FALSE
    ELSE IF self.last_replan_time = NoTime THEN TRUE
    ELSE IF current_time - self.last_replan_time >= self.replan_interval_s THEN TRUE
    ELSE IF traffic_change_pct > 20 THEN TRUE
    ELSE IF is_off_route THEN TRUE
    ELSE IF incident_on_route THEN TRUE
    ELSE FALSE

\* should_replan with the timer test strict (> for >=)
should_replan_StrictInterval(self, current_time, traffic_change_pct, is_off_route, incident_on_route) ==
    IF self.replan_count >= self.max_replans THEN FALSE
    ELSE IF self.last_replan_time = NoTime THEN TRUE
    ELSE IF current_time - self.last_replan_time > self.replan_interval_s THEN TRUE
    ELSE IF traffic_change_pct > 20 THEN TRUE
    ELSE IF is_off_route THEN TRUE
    ELSE IF incident_on_route THEN TRUE
    ELSE FALSE

\* lines 528-567; traffic_change_pct in hundredths
should_replan(self, current_time, traffic_change_pct, is_off_route, incident_on_route) ==
    IF self.replan_count >= self.max_replans THEN FALSE
    ELSE IF self.last_replan_time = NoTime THEN TRUE
    ELSE IF current_time - self.last_replan_time >= self.replan_interval_s THEN TRUE
    ELSE IF traffic_change_pct > 20 THEN TRUE
    ELSE IF is_off_route THEN TRUE
    ELSE IF incident_on_route THEN TRUE
    ELSE FALSE

\* the test of lines 601-609 without the threshold: any cheaper candidate wins
KeepsCurrent_NoHysteresis(self, new_route) ==
    /\ self.current_route # None
    /\ new_route.cost >= self.current_route.cost

\* the test with the threshold on the wrong side, (1 + theta) * the current cost
KeepsCurrent_ThresholdAbove(self, new_route) ==
    /\ self.current_route # None
    /\ new_route.cost * 100 >= self.current_route.cost * (100 + self.hysteresis_threshold)

\* the test with > for >=: a candidate at the threshold wins
KeepsCurrent_StrictThreshold(self, new_route) ==
    /\ self.current_route # None
    /\ new_route.cost * 100 > self.current_route.cost * (100 - self.hysteresis_threshold)

\* lines 601-609: the candidate is at least (1 - theta) * the current cost
KeepsCurrent(self, new_route) ==
    /\ self.current_route # None
    /\ new_route.cost * 100 >= self.current_route.cost * (100 - self.hysteresis_threshold)

\* the commit numbering its history entry before it counts the replan
Commit_NumbersBeforeCounting(self, new_route, current_time) ==
    [self EXCEPT
        !.current_route = new_route,
        !.last_replan_time = current_time,
        !.replan_count = @ + 1,
        !.route_history = Append(@, [replan_number |-> self.replan_count,
                                     time |-> current_time,
                                     cost |-> new_route.cost,
                                     distance_km |-> new_route.distanceKm])]

\* lines 611-620: accept the new route
Commit(self, new_route, current_time) ==
    [self EXCEPT
        !.current_route = new_route,
        !.last_replan_time = current_time,
        !.replan_count = @ + 1,
        !.route_history = Append(@, [replan_number |-> self.replan_count + 1,
                                     time |-> current_time,
                                     cost |-> new_route.cost,
                                     distance_km |-> new_route.distanceKm])]

\* replan() stamping last_replan_time also when it discards the candidate
Decide_TouchTime(self, new_route, current_time) ==
    IF new_route = None THEN [self |-> self, ret |-> None]
    ELSE IF KeepsCurrent(self, new_route)
         THEN [self |-> [self EXCEPT !.last_replan_time = current_time], ret |-> None]
    ELSE [self |-> Commit(self, new_route, current_time), ret |-> new_route]

\* lines 596-622: what replan() does with the route the search returned;
\* [self, ret], the engine afterwards and the value returned
Decide(self, new_route, current_time) ==
    IF new_route = None THEN [self |-> self, ret |-> None]
    ELSE IF KeepsCurrent(self, new_route) THEN [self |-> self, ret |-> None]
    ELSE [self |-> Commit(self, new_route, current_time), ret |-> new_route]

\* replan(), lines 569-622.  weights carries alpha, beta, gamma; delta
\* defaults to 0.05
replan(self, G, current_node, goal, current_time, weights, traffic_predictions) ==
    Decide(self,
           orion_route(G, MakeQuery(current_node, goal, current_time,
               [alpha |-> weights.alpha, beta |-> weights.beta,
                gamma |-> weights.gamma, delta |-> 5],
               traffic_predictions)),
           current_time)

\* route_history[:5], the first five
LastFive_FirstFive(h) == IF Len(h) <= 5 THEN h ELSE SubSeq(h, 1, 5)

\* route_history[-5:]
LastFive(h) == IF Len(h) <= 5 THEN h ELSE SubSeq(h, Len(h) - 4, Len(h))

\* get_status(), lines 624-632
get_status(self) ==
    [replan_count |-> self.replan_count,
     max_replans |-> self.max_replans,
     last_replan |-> self.last_replan_time,
     current_route_cost |-> IF self.current_route # None THEN self.current_route.cost
                            ELSE None,
     history |-> LastFive(self.route_history)]

----------------------------------------------------------------------------
(* algorithms/graph_builder.py: find_nearest_node; main.py: replan_route *)

\* linear scan with a strict <: the first node at the least distance, nodes
\* being scanned in the order they were added (ascending id)
find_nearest_node(G, lng) ==
    CHOOSE n \in G.nodes : \A m \in G.nodes :
        \/ haversine(lng, G.lng[n]) < haversine(lng, G.lng[m])
        \/ (haversine(lng, G.lng[n]) = haversine(lng, G.lng[m]) /\ n <= m)

\* a new engine for every request, whether or not the ride has one
WithEngine_AlwaysNew(engines, rideId) == (rideId :> NewEngine) @@ engines

\* replan_engines after lines 874-875
WithEngine(engines, rideId) ==
    IF rideId \in DOMAIN engines THEN engines ELSE (rideId :> NewEngine) @@ engines

\* what the request said of the ride, the clock and the triggers (kept with
\* the response so that a response can be read against the call it answers)
Asked(req) ==
    [rideId |-> req.rideId, departureTime |-> req.departureTime,
     trafficChangePct |-> req.trafficChangePct, isOffRoute |-> req.isOffRoute,
     incidentOnRoute |-> req.incidentOnRoute]

\* lines 898-904: should_replan said no
NotNeeded(req, engines) ==
    /\ replan_engines' = engines
    /\ response' = [kind |-> "replan", request |-> Asked(req), should_replan |-> FALSE,
                    replanned |-> FALSE, route |-> None,
                    reason |-> "Current route is still optimal",
                    status |-> get_status(engines[req.rideId])]

\* lines 922-935: r is what engine.replan left and returned
Replanned(req, engines, r) ==
    /\ replan_engines' = [engines EXCEPT ![req.rideId] = r.self]
    /\ response' = [kind |-> "replan", request |-> Asked(req), should_replan |-> TRUE,
                    replanned |-> r.ret # None, route |-> r.ret,
                    reason |-> IF r.ret = None
                               THEN "New route not significantly better (hysteresis threshold)"
                               ELSE "",
                    status |-> get_status(r.self)]

\* POST /api/route/replan, lines 858-935.  The handler never suspends
\* (_get_stgat_predictions awaits nothing), so it runs as one step.
\* req: rideId, currentPosition, destination (lng), departureTime, weights,
\* trafficChangePct, isOffRoute, incidentOnRoute; traffic_preds is what the
\* prediction model yields for the request.
replan_route(req, traffic_preds) ==
    LET G       == GraphOf(road_graph)
        engines == WithEngine(replan_engines, req.rideId)
        engine  == engines[req.rideId]
    IN  IF ~should_replan(engine, req.departureTime, req.trafficChangePct,
                          req.isOffRoute, req.incidentOnRoute)
        THEN NotNeeded(req, engines)
        ELSE Replanned(req, engines,
                       replan(engine, G, find_nearest_node(G, req.currentPosition),
                              find_nearest_node(G, req.destination),
                              req.departureTime, req.weights, traffic_preds))

----------------------------------------------------------------------------
(* algorithms/orion.py: compute_pareto_routes *)

\* the tag taken from the first preset instead of the preset that was run
TagRoute_First(route, preset) == [preset_name |-> presets[1].name] @@ route

\* lines 677-679: route["preset_name"] = preset["name"]
TagRoute(route, preset) == [preset_name |-> preset.name] @@ route

\* lines 677-679: a route found is tagged and appended
Tagged(route, preset) == IF route # None THEN <<TagRoute(route, preset)>> ELSE <<>>

\* lines 666-679: one orion_route call per preset, in order; the routes found
RECURSIVE PresetRoutes(_, _, _)
PresetRoutes(G, pq, i) ==
    IF i > Len(presets) THEN <<>>
    ELSE Tagged(orion_route(G, MakeQuery(pq.start, pq.goal, pq.departure_time,
                    WeightsOf(presets[i]), pq.traffic_predictions)), presets[i])
         \o PresetRoutes(G, pq, i + 1)

\* dominance asking for a strict improvement in every objective
Dominates_AllStrict(r2, r1) ==
    /\ r2.durationMin < r1.durationMin
    /\ r2.co2Grams < r1.co2Grams
    /\ r2.distanceKm < r1.distanceKm

\* lines 692-697: r2 dominates r1
Dominates(r2, r1) ==
    /\ r2.durationMin <= r1.durationMin
    /\ r2.co2Grams <= r1.co2Grams
    /\ r2.distanceKm <= r1.distanceKm
    /\ \/ r2.durationMin < r1.durationMin
       \/ r2.co2Grams < r1.co2Grams
       \/ r2.distanceKm < r1.distanceKm

\* the filter putting each survivor in front of the ones before it
ParetoFilter_Reversed(routes) ==
    LET dominated(i) == \E j \in 1..Len(routes) : i # j /\ Dominates(routes[j], routes[i])
        kept == SelectSeq([i \in 1..Len(routes) |-> i], LAMBDA i : ~dominated(i))
    IN  [k \in 1..Len(kept) |-> routes[kept[Len(kept) + 1 - k]]]

\* lines 685-701: keep, in order, the routes no other route dominates
ParetoFilter(routes) ==
    LET dominated(i) == \E j \in 1..Len(routes) : i # j /\ Dominates(routes[j], routes[i])
        kept == SelectSeq([i \in 1..Len(routes) |-> i], LAMBDA i : ~dominated(i))
    IN  [k \in 1..Len(kept) |-> routes[kept[k]]]

\* lines 639-703
FilterRoutes(routes) == IF Len(routes) <= 1 THEN routes ELSE ParetoFilter(routes)

\* lines 639-703
compute_pareto_routes(G, pq) == FilterRoutes(PresetRoutes(G, pq, 1))

----------------------------------------------------------------------------
(* Reference notions for the claims about the returned route *)

\* every simple path from u to goal in G, as a node sequence
RECURSIVE PathsFrom(_, _, _, _)
PathsFrom(G, u, goal, seen) ==
    IF u = goal THEN {<<u>>}
    ELSE UNION {{<<u>> \o p : p \in PathsFrom(G, G.edges[i].v, goal, seen \cup {u})} :
                i \in {k \in 1..Len(G.edges) :
                          G.edges[k].u = u /\ G.edges[k].v \notin seen \cup {u}}}

AllPaths(G, start, goal) ==
    IF start \in G.nodes /\ goal \in G.nodes THEN PathsFrom(G, start, goal, {}) ELSE {}

\* [cost, time]: the summed edge cost J and the summed travel time of a path
\* left at time t under the query's weights and predictions, each edge
\* entered when its tail is reached
RECURSIVE PathTotals(_, _, _, _, _)
PathTotals(G, q, path, i, t) ==
    IF i >= Len(path) THEN [cost |-> 0, time |-> 0]
    ELSE LET b == extended_edge_cost(edge_attrs(G, path[i], path[i + 1]), t,
                      q.traffic_predictions, make_edge_key(path[i], path[i + 1]),
                      q.alpha, q.beta, q.gamma, q.delta)
             r == PathTotals(G, q, path, i + 1, t + b.travel_time_s)
         IN  [cost |-> b.cost + r.cost, time |-> b.travel_time_s + r.time]

PathCost(G, q, path) == PathTotals(G, q, path, 1, q.departure_time).cost

PathTime(G, q, path) == PathTotals(G, q, path, 1, q.departure_time).time

\* edge costs do not change over the search horizon: the time-of-day volume
\* is the same from the departure until every edge of the graph has been
\* driven once (less than two hours)
RECURSIVE SumTravel(_, _, _)
SumTravel(G, q, i) ==
    IF i > Len(G.edges) THEN 0
    ELSE time_dependent_weight(G.edges[i], q.departure_time, q.traffic_predictions,
             make_edge_key(G.edges[i].u, G.edges[i].v)).travel_time
         + SumTravel(G, q, i + 1)

StaticCosts(G, q) ==
    /\ SumTravel(G, q, 1) < 2 * 360000
    /\ volume_ratio(q.departure_time) = volume_ratio(q.departure_time + SumTravel(G, q, 1))
    /\ volume_ratio(q.departure_time) = volume_ratio(q.departure_time + SumTravel(G, q, 1) \div 2)

Returned == search.status = "returned"

Found == Returned /\ search.result # None

----------------------------------------------------------------------------
(* SpecPareto: one compute_pareto_routes call *)

InitPareto ==
    /\ road_graph \in GraphNames
    /\ query \in [start : NodeIds, goal : NodeIds, departure_time : DepartureTimes,
                  traffic_predictions : PredictionMaps]
    /\ search = NoSearch
    /\ replan_engines = <<>>
    /\ response = NoResponse
    /\ drive = 0
    /\ Quiet

ParetoRoutes ==
    /\ response = NoResponse
    /\ response' = [kind |-> "pareto",
                    routes |-> compute_pareto_routes(GraphOf(road_graph), query)]
    /\ UNCHANGED <<road_graph, query, search, replan_engines, drive,
                   contraction_hierarchy, tasks, running>>

NextPareto == ParetoRoutes

SpecPareto == InitPareto /\ [][NextPareto]_vars

----------------------------------------------------------------------------
(* SpecReplan: replan requests on the bypass graph *)

\* 10:00:00
T0 == 10 * 360000

ReplanRides == {"r1"}

\* positions (lng) snapping to nodes 1, 3 and the isolated node 5
ReplanPositions == {0, 20, 40}

\* T0, 44.99 s and 45 s later
ReplanTimes == {T0, T0 + 4499, T0 + 4500}

\* request weights: time only, scaled so that costs are in ratio 100 : 90 : 80
ReplanWeights == {[alpha |-> a, beta |-> 0, gamma |-> 0] : a \in {100, 90, 80}}

\* no trigger, each trigger alone, all of them; 0.20 is not above the threshold
ReplanTriggers ==
    {[trafficChangePct |-> 20, isOffRoute |-> FALSE, incidentOnRoute |-> FALSE],
     [trafficChangePct |-> 21, isOffRoute |-> FALSE, incidentOnRoute |-> FALSE],
     [trafficChangePct |-> 20, isOffRoute |-> TRUE, incidentOnRoute |-> FALSE],
     [trafficChangePct |-> 20, isOffRoute |-> FALSE, incidentOnRoute |-> TRUE],
     [trafficChangePct |-> 21, isOffRoute |-> TRUE, incidentOnRoute |-> TRUE]}

ReplanRequests ==
    {[rideId |-> ride, currentPosition |-> pos, destination |-> 20,
      departureTime |-> t, weights |-> w] @@ trig :
        ride \in ReplanRides, pos \in ReplanPositions, t \in ReplanTimes,
        w \in ReplanWeights, trig \in ReplanTriggers}

InitReplan ==
    /\ road_graph = "bypass"
    /\ query = NoQuery
    /\ search = NoSearch
    /\ replan_engines = <<>>
    /\ response = NoResponse
    /\ drive = 0
    /\ Quiet

ReplanRoute ==
    \E req \in ReplanRequests, preds \in {<<>>} :
        /\ replan_route(req, preds)
        /\ UNCHANGED <<road_graph, query, search, drive,
                   contraction_hierarchy, tasks, running>>

NextReplan == ReplanRoute

SpecReplan == InitReplan /\ [][NextReplan]_vars

----------------------------------------------------------------------------
(* SpecDrive: a vehicle drives down the descent road towards node 21 and    *)
(* sends a replan request from each node it reaches, 45 s after the one     *)
(* before; it may repeat the request where it stands.                       *)

DriveRequest(at, pct, off, inc) ==
    [rideId |-> "r1", currentPosition |-> Descent.lng[at + 1],
     destination |-> Descent.lng[21], departureTime |-> T0 + at * 4500,
     weights |-> [alpha |-> 100, beta |-> 0, gamma |-> 0],
     trafficChangePct |-> pct, isOffRoute |-> off, incidentOnRoute |-> inc]

InitDrive ==
    /\ road_graph = "descent"
    /\ query = NoQuery
    /\ search = NoSearch
    /\ replan_engines = <<>>
    /\ response = NoResponse
    /\ drive = 0
    /\ Quiet

\* a request from where the vehicle stands
DriveRepeat ==
    \E pct \in {20, 21}, off \in BOOLEAN, inc \in BOOLEAN :
        /\ replan_route(DriveRequest(drive, pct, off, inc), <<>>)
        /\ UNCHANGED <<road_graph, query, search, drive,
                   contraction_hierarchy, tasks, running>>

\* the vehicle reaches the next node and sends a request from there
DriveOn ==
    \E pct \in {20, 21}, off \in BOOLEAN, inc \in BOOLEAN :
        /\ drive < 20
        /\ response # NoResponse
        /\ drive' = drive + 1
        /\ replan_route(DriveRequest(drive + 1, pct, off, inc), <<>>)
        /\ UNCHANGED <<road_graph, query, search,
                   contraction_hierarchy, tasks, running>>

NextDrive == DriveRepeat \/ DriveOn

SpecDrive == InitDrive /\ [][NextDrive]_vars

-----------------------------------------------------------------------------
(* Specification SpecConcurrent: replan requests handled as coroutines of    *)
(* one event loop (uvicorn.run, main.py line 1055).  A coroutine runs until  *)
(* it returns or suspends; running is the task that holds the loop, 0 when   *)
(* the loop is free to start or resume any task.                             *)

TaskIds == {1, 2}

ConcurrentRides == {"r1", "r2"}

ConcurrentRequests ==
    {[rideId |-> ride, currentPosition |-> 0, destination |-> 20,
      departureTime |-> t, weights |-> [alpha |-> a, beta |-> 0, gamma |-> 0],
      trafficChangePct |-> 20, isOffRoute |-> FALSE, incidentOnRoute |-> FALSE] :
        ride \in ConcurrentRides, t \in {T0, T0 + 4500}, a \in {100, 80}}

IdleTask == [pc |-> "idle"]

InitConcurrent ==
    /\ road_graph = "bypass"
    /\ query = NoQuery
    /\ search = NoSearch
    /\ replan_engines = <<>>
    /\ response = NoResponse
    /\ drive = 0
    /\ contraction_hierarchy = None
    /\ tasks = [t \in TaskIds |-> IdleTask]
    /\ running = 0

\* a request arrives and its handler is scheduled
Call(t) ==
    /\ tasks[t].pc = "idle"
    /\ \E req \in ConcurrentRequests : tasks' = [tasks EXCEPT ![t] = [pc |-> "ready", req |-> req]]
    /\ UNCHANGED <<road_graph, query, search, replan_engines, response, drive,
                   contraction_hierarchy, running>>

\* who holds the loop during `await _get_stgat_predictions(departure)`
\* (line 909), were the awaited coroutine to suspend
AwaitPredictions_Yields(t) == 0

\* who holds the loop during `await _get_stgat_predictions(departure)`
\* (line 909): the awaited coroutine (lines 539-627) awaits nothing, so it
\* runs inside the task and the loop is not released
AwaitPredictions(t) == t

\* lines 858-909: the engine is fetched or made and should_replan is asked;
\* checked keeps the engine as should_replan saw it
CheckReplan(t) ==
    /\ running = 0
    /\ tasks[t].pc = "ready"
    /\ LET req     == tasks[t].req
           engines == WithEngine(replan_engines, req.rideId)
       IN  IF ~should_replan(engines[req.rideId], req.departureTime, req.trafficChangePct,
                             req.isOffRoute, req.incidentOnRoute)
           THEN /\ NotNeeded(req, engines)
                /\ tasks' = [tasks EXCEPT ![t] = [pc |-> "done", req |-> req]]
                /\ running' = 0
           ELSE /\ replan_engines' = engines
                /\ response' = response
                /\ tasks' = [tasks EXCEPT ![t] = [pc |-> "await", req |-> req,
                                                  checked |-> engines[req.rideId]]]
                /\ running' = AwaitPredictions(t)
    /\ UNCHANGED <<road_graph, query, search, drive, contraction_hierarchy>>

\* lines 909-935: engine.replan decides and the response is returned
CommitReplan(t) ==
    /\ running \in {0, t}
    /\ tasks[t].pc = "await"
    /\ Replanned(tasks[t].req, replan_engines,
                 replan(replan_engines[tasks[t].req.rideId], GraphOf(road_graph),
                        find_nearest_node(GraphOf(road_graph), tasks[t].req.currentPosition),
                        find_nearest_node(GraphOf(road_graph), tasks[t].req.destination),
                        tasks[t].req.departureTime, tasks[t].req.weights, <<>>))
    /\ tasks' = [tasks EXCEPT ![t] = [pc |-> "done", req |-> tasks[t].req]]
    /\ running' = 0
    /\ UNCHANGED <<road_graph, query, search, drive, contraction_hierarchy>>

NextConcurrent == \E t \in TaskIds : Call(t) \/ CheckReplan(t) \/ CommitReplan(t)

SpecConcurrent == InitConcurrent /\ [][NextConcurrent]_vars

----------------------------------------------------------------------------
(* Claims about orion_route, under Spec *)

\* C1: when edge costs are static over the search horizon, the route
\* orion_route returns costs no more than any other start-to-goal path
\* (the claim as stated; the code violates it).
C1_ReturnedRouteIsCheapest ==
    (Found /\ StaticCosts(GraphOf(road_graph), query)) =>
        \A p \in AllPaths(GraphOf(road_graph), query.start, query.goal) :
            search.result.cost <= PathCost(GraphOf(road_graph), query, p)

\* C2: with weights (1, 0, 0, 0) no start-to-goal path has a strictly lower
\* travel time than the returned route, and on the triangle with A->C
\* predicted at 20 km/h the returned path is A->B->C (the claim as stated;
\* the code violates it).
C2_TimeOnlyRouteIsFastest ==
    (Found /\ WeightsOf(query) = TimeOnly) =>
        /\ \A p \in AllPaths(GraphOf(road_graph), query.start, query.goal) :
               PathTime(GraphOf(road_graph), query, search.result.path_nodes)
                   <= PathTime(GraphOf(road_graph), query, p)
        /\ (road_graph = "triangle" /\ query.start = 1 /\ query.goal = 3
              /\ query.traffic_predictions = (make_edge_key(1, 3) :> 200))
             => search.result.path_nodes = <<1, 2, 3>>

\* C11 (under SpecCH): a returned route's path_nodes starts at start, ends
\* at goal, and each consecutive pair is an edge of the graph searched: the
\* contracted graph of a preprocessed hierarchy, else the road graph.
C11_PathFollowsSearchedEdges ==
    Found =>
        LET path == search.result.path_nodes
        IN  /\ Len(path) >= 1
            /\ path[1] = query.start
            /\ path[Len(path)] = query.goal
            /\ \A i \in 1..(Len(path) - 1) :
                  has_edge(search_graph(contraction_hierarchy, GraphOf(road_graph)),
                           path[i], path[i + 1])

\* a route of three edges or more found over a contracted graph, one of its
\* steps a shortcut that is no road of the graph
C11_Witness ==
    /\ Found
    /\ contraction_hierarchy.shortcuts # <<>>
    /\ Len(search.result.path_nodes) >= 4
    /\ \E i \in 1..(Len(search.result.path_nodes) - 1) :
          ~has_edge(GraphOf(road_graph), search.result.path_nodes[i],
                    search.result.path_nodes[i + 1])

\* C12: when start equals goal and the node exists, the call returns the
\* route of the single node: distance, duration, CO2 and cost 0, no
\* segments, and the arrival time equal to the departure time.
C12_StartIsGoalGivesEmptyRoute ==
    (Returned /\ query.start = query.goal
       /\ query.start \in GraphOf(road_graph).nodes) =>
        /\ search.result # None
        /\ search.result.path_nodes = <<query.start>>
        /\ search.result.distanceKm = 0
        /\ search.result.durationMin = 0
        /\ search.result.co2Grams = 0
        /\ search.result.cost = 0
        /\ search.result.segments = <<>>
        /\ search.result.arrivalTime = query.departure_time
        /\ search.result.departureTime = query.departure_time

\* a call with start = goal on a node that has outgoing edges has returned
C12_Witness ==
    /\ Found
    /\ query.start = query.goal
    /\ successors(GraphOf(road_graph), query.start) # <<>>

\* C13: the call returns None when start or goal is no node of the graph
\* and when no path leads from start to goal; it returns no route then.
C13_NoRouteWhenUnreachable ==
    (Returned /\ \/ query.start \notin GraphOf(road_graph).nodes
                 \/ query.goal \notin GraphOf(road_graph).nodes
                 \/ AllPaths(GraphOf(road_graph), query.start, query.goal) = {}) =>
        search.result = None

\* start and goal are nodes, no path joins them, and the search ran dry
C13_Witness ==
    /\ Returned
    /\ query.start \in GraphOf(road_graph).nodes
    /\ query.goal \in GraphOf(road_graph).nodes
    /\ AllPaths(GraphOf(road_graph), query.start, query.goal) = {}
    /\ search.result = None
    /\ search.nodes_explored >= 2

\* C14 (under SpecCap): every search returns.  The iterations left are a
\* variant: never negative, and every pass of the loop either returns or
\* leaves fewer of them, so the loop pops at most max_iterations entries;
\* with none left the next step returns None.
C14_SearchStopsAtCap ==
    /\ [](/\ search.max_iterations \in 0..query.max_iterations
          /\ search.nodes_explored <= query.max_iterations - search.max_iterations
          /\ Looping =>
                LET after == SearchStep(GraphOf(road_graph), GraphOf(road_graph), query, search)
                IN  \/ after.status = "returned"
                    \/ after.max_iterations < search.max_iterations)
    /\ [][(Looping /\ search.max_iterations = 0) =>
            (search'.status = "returned" /\ search'.result = None)]_vars

\* the cap was reached with entries still queued and a path to the goal in
\* the graph, and the call returned None
C14_Witness ==
    /\ Returned
    /\ search.result = None
    /\ query.max_iterations >= 2
    /\ search.nodes_explored = query.max_iterations
    /\ search.open_set # {}
    /\ AllPaths(GraphOf(road_graph), query.start, query.goal) # {}

\* a predictions map whose every entry is the edge's free_flow_speed
FreeFlowPredictions(G) ==
    [key \in {make_edge_key(G.edges[i].u, G.edges[i].v) : i \in 1..Len(G.edges)} |->
        edge_attrs(G, key[1], key[2]).free_flow_speed_kmh]

\* the reported travel time of a segment at free flow: length / speed
FreeFlowTime(seg) == RoundDiv((seg.distance_m * 3600) \div seg.speed_limit, 10)

WithSpeedLimit(G, segs) ==
    [k \in 1..Len(segs) |->
        [distance_m    |-> segs[k].distance_m,
         travel_time_s |-> segs[k].travel_time_s,
         speed_limit   |-> edge_attrs(G, segs[k].from_node, segs[k].to_node).free_flow_speed_kmh,
         capacity      |-> edge_attrs(G, segs[k].from_node, segs[k].to_node).capacity]]

SameRouteAndTimes(r0, r1) ==
    /\ r1 # None
    /\ r1.path_nodes = r0.path_nodes
    /\ \A k \in 1..Len(r0.segments) :
          r1.segments[k].travel_time_s = r0.segments[k].travel_time_s

FreeFlowNeverSlower(G, q, r0, r1) ==
    /\ r1 # None
    /\ \A k \in 1..Len(r1.segments) :
          WithSpeedLimit(G, r1.segments)[k].travel_time_s
              = FreeFlowTime(WithSpeedLimit(G, r1.segments)[k])
    /\ \A k \in 1..Len(r0.segments) :
          LET seg == WithSpeedLimit(G, r0.segments)[k] IN
          /\ seg.travel_time_s >= FreeFlowTime(seg)
          /\ seg.travel_time_s =
                RoundDiv(bpr_travel_time(seg.distance_m, seg.speed_limit,
                             IF seg.capacity > 0 THEN volume_ratio(q.departure_time) ELSE 0), 10)

\* C15 as stated: planning with no predictions gives the route and the
\* per-edge travel times of planning with every edge predicted at its
\* free_flow_speed.
C15_NoPredictionsIsFreeFlow ==
    (Found /\ query.traffic_predictions = <<>>) =>
        SameRouteAndTimes(search.result,
            orion_route(GraphOf(road_graph),
                [query EXCEPT !.traffic_predictions = FreeFlowPredictions(GraphOf(road_graph))]))

\* C15 (amended): with every edge predicted at its free_flow_speed each edge
\* of the route takes length / free_flow_speed; with no predictions each
\* edge takes the BPR time of the departure hour's volume ratio, which is
\* never less.
C15_FreeFlowMapNeverSlower ==
    (Found /\ query.traffic_predictions = <<>>) =>
        FreeFlowNeverSlower(GraphOf(road_graph), query, search.result,
            orion_route(GraphOf(road_graph),
                [query EXCEPT !.traffic_predictions = FreeFlowPredictions(GraphOf(road_graph))]))

\* a route of two edges planned at 08:00 with no predictions
C15_Witness ==
    /\ Found
    /\ query.traffic_predictions = <<>>
    /\ HourOf(query.departure_time) = 8
    /\ Len(search.result.segments) >= 2

\* a result with its wall-clock measurement blanked
WithoutSearchTime(r) == IF r = None THEN None ELSE [r EXCEPT !.searchTimeMs = 0]

\* another run of the same call, in which the clock measures ms
Rerun(ms) ==
    orion_route(GraphOf(road_graph), [query EXCEPT !.search_time_ms = ms])

-----------------------------------------------------------------------------
(* Claims about the contraction hierarchy (under SpecCH)                     *)

\* the summed length_m of a path's edges
RECURSIVE PathLength(_, _, _)
PathLength(G, path, i) ==
    IF i >= Len(path) THEN 0
    ELSE edge_attrs(G, path[i], path[i + 1]).length_m + PathLength(G, path, i + 1)

\* preprocess ran to its end and contracted every node
Preprocessed ==
    /\ contraction_hierarchy.is_preprocessed
    /\ contraction_hierarchy.contracted = GraphOf(road_graph).nodes

LineGraphs == {"line", "line_3_first", "line_1_fourth"}

SameAsBefore(r, before) ==
    /\ r # None
    /\ r.path_nodes = <<1, 2, 3, 4, 5>>
    /\ Len(r.segments) = 4
    /\ SumField(r.segments, "distance_m") = SumField(before.segments, "distance_m")
    /\ r.distanceKm = before.distanceKm

\* C17: on the line 1->2->3->4->5 of equal lengths, the query 1 -> 5 after
\* preprocess returns the 4-edge path through 2, 3 and 4, as long in total
\* as the route returned without a hierarchy.
C17_LineRouteSurvivesPreprocess ==
    (Returned /\ road_graph \in LineGraphs /\ Preprocessed
       /\ query.start = 1 /\ query.goal = 5) =>
        SameAsBefore(search.result, orion_route(GraphOf(road_graph), query))

\* C18: after preprocess, no recorded shortcut (u, w, weight, via) is longer
\* than another u-to-w path of the road graph whose interior nodes are all
\* contracted.
C18_ShortcutsAreShortest ==
    Preprocessed =>
        \A k \in 1..Len(contraction_hierarchy.shortcuts) :
            LET sc == contraction_hierarchy.shortcuts[k]
            IN  \A path \in AllPaths(GraphOf(road_graph), sc.u, sc.v) :
                    ({path[i] : i \in 2..(Len(path) - 1)} \subseteq contraction_hierarchy.contracted
                       /\ path # <<sc.u, sc.via, sc.v>>)
                    => sc.weight <= PathLength(GraphOf(road_graph), path, 1)

----------------------------------------------------------------------------
(* Claims about the replanning engine, under SpecReplan and SpecDrive *)

\* the ride's engine as the handler finds it (a new one if the ride has none)
Before(rideId) == WithEngine(replan_engines, rideId)[rideId]

\* C3: a replan call commits a route, and the facade answers replanned=true,
\* only if the ride had no current route or the committed route's cost is
\* strictly below (1 - theta) times the current route's cost; against a
\* current cost of 100 a candidate of 90 is kept out and one of 80 is not.
C3_CommitOnlyPastHysteresis ==
    [][response'.kind = "replan" =>
        LET ride == response'.request.rideId
            e    == Before(ride)
            e2   == replan_engines'[ride]
            cur  == [NewEngine EXCEPT !.current_route = [cost |-> 1000000]]
        IN  /\ response'.replanned <=> e2.replan_count = e.replan_count + 1
            /\ (response'.replanned \/ e2 # e) =>
                  /\ e2.current_route = response'.route
                  /\ \/ e.current_route = None
                     \/ response'.route.cost * 100
                           < (100 - hysteresis_threshold) * e.current_route.cost
            /\ KeepsCurrent(cur, [cost |-> 900000])
            /\ ~KeepsCurrent(cur, [cost |-> 800000])]_vars

\* a route was committed over an earlier one
C3_Witness ==
    /\ response.kind = "replan"
    /\ response.replanned
    /\ response.status.replan_count >= 2

\* C4: a ride's replan_count never exceeds max_replans (20).
C4_CountWithinCeiling ==
    \A ride \in DOMAIN replan_engines :
        /\ replan_engines[ride].replan_count <= max_replans
        /\ replan_engines[ride].max_replans = 20

\* the count stands at the ceiling and an off-route call has been answered
C4_Witness ==
    /\ response.kind = "replan"
    /\ response.request.isOffRoute
    /\ replan_engines[response.request.rideId].replan_count = max_replans

\* C5 as stated: once a ride has max_replans commits, the next call answers
\* replanned=false with the reason "ceiling" and commits nothing.
C5_CeilingReasonIsCeiling ==
    [][(response'.kind = "replan"
          /\ Before(response'.request.rideId).replan_count = max_replans) =>
        /\ ~response'.replanned
        /\ response'.reason = "ceiling"
        /\ replan_engines'[response'.request.rideId] = Before(response'.request.rideId)]_vars

\* C5 amended: once a ride has max_replans commits, the next call answers
\* replanned=false, with the reason "Current route is still optimal" that
\* any call without a trigger gets, and commits nothing, whatever the triggers.
C5_CeilingSuppressesReplan ==
    [][(response'.kind = "replan"
          /\ Before(response'.request.rideId).replan_count = max_replans) =>
        /\ ~response'.replanned
        /\ response'.route = None
        /\ response'.reason = "Current route is still optimal"
        /\ replan_engines'[response'.request.rideId] = Before(response'.request.rideId)]_vars

\* a call with every trigger set was answered at the ceiling
C5_Witness ==
    /\ response.kind = "replan"
    /\ response.status.replan_count = max_replans
    /\ ~response.should_replan
    /\ response.request.incidentOnRoute
    /\ response.request.isOffRoute
    /\ response.request.trafficChangePct > 20

C7_NoCommitNoChange ==
    [][response'.kind = "replan" =>
        LET req == response'.request
            e   == Before(req.rideId)
            e2  == replan_engines'[req.rideId]
        IN  /\ ~response'.replanned =>
                  /\ e2.current_route = e.current_route
                  /\ e2.last_replan_time = e.last_replan_time
                  /\ e2.replan_count = e.replan_count
                  /\ e2.route_history = e.route_history
            /\ e2.last_replan_time # e.last_replan_time => response'.replanned
            /\ response'.replanned => e2.last_replan_time = req.departureTime]_vars

\* a call later than the last commit went as far as the search and did not
\* commit
C7_Witness ==
    /\ response.kind = "replan"
    /\ response.should_replan
    /\ ~response.replanned
    /\ response.status.replan_count >= 1
    /\ response.request.departureTime > response.status.last_replan

----------------------------------------------------------------------------
(* Claims about compute_pareto_routes, under SpecPareto *)

\* C8: no returned route dominates another returned route: is no worse in
\* duration, CO2 and distance and strictly better in at least one.
C8_NoReturnedRouteDominated ==
    response.kind = "pareto" =>
        \A i, j \in 1..Len(response.routes) :
            LET r1 == response.routes[i]
                r2 == response.routes[j]
            IN  i # j =>
                  ~ /\ r2.durationMin <= r1.durationMin
                    /\ r2.co2Grams <= r1.co2Grams
                    /\ r2.distanceKm <= r1.distanceKm
                    /\ ~ /\ r2.durationMin = r1.durationMin
                         /\ r2.co2Grams = r1.co2Grams
                         /\ r2.distanceKm = r1.distanceKm

\* a route some preset found was filtered out, and a route was returned
C8_Witness ==
    /\ response.kind = "pareto"
    /\ Len(response.routes) >= 1
    /\ Len(response.routes) < Len(PresetRoutes(GraphOf(road_graph), query, 1))

\* C9 as stated: a node path that several presets yield is returned once,
\* and the returned routes are in the order fastest, greenest, balanced,
\* smoothest.
C9_DuplicatePathsReturnedOnce ==
    response.kind = "pareto" =>
        \A i, j \in 1..Len(response.routes) :
            i < j =>
              /\ response.routes[i].path_nodes # response.routes[j].path_nodes
              /\ \E a, b \in 1..Len(presets) :
                    /\ a < b
                    /\ response.routes[i].preset_name = presets[a].name
                    /\ response.routes[j].preset_name = presets[b].name

\* C9 amended: the returned routes are in the order fastest, greenest,
\* balanced, smoothest, one per preset at most; a node path that several
\* presets yield is not reduced to one route: the routes of those presets
\* are all returned or all left out.
C9_PresetOrderDuplicatesKept ==
    response.kind = "pareto" =>
        LET found == PresetRoutes(GraphOf(road_graph), query, 1)
            returned(r) == \E i \in 1..Len(response.routes) : response.routes[i] = r
        IN  /\ \A i, j \in 1..Len(response.routes) :
                  i < j => \E a, b \in 1..Len(presets) :
                              /\ a < b
                              /\ response.routes[i].preset_name = presets[a].name
                              /\ response.routes[j].preset_name = presets[b].name
            /\ \A a, b \in 1..Len(found) :
                  found[a].path_nodes = found[b].path_nodes =>
                      (returned(found[a]) <=> returned(found[b]))

\* two presets' routes over the same node path were both returned
C9_Witness ==
    /\ response.kind = "pareto"
    /\ \E i, j \in 1..Len(response.routes) :
          /\ i < j
          /\ response.routes[i].path_nodes = response.routes[j].path_nodes

-----------------------------------------------------------------------------
(* Claims about concurrent replan requests (under SpecConcurrent)            *)

CheckedFields(e) == <<e.replan_count, e.last_replan_time, e.current_route>>

IsPrefix(h1, h2) == Len(h1) <= Len(h2) /\ SubSeq(h2, 1, Len(h1)) = h1

\* C19: between a request's should_replan check and its commit no other
\* request of the same ride is between its own check and commit, and the
\* ride's replan_count, last_replan_time and current_route are those the
\* request checked.
C19_CheckAndCommitAtomic ==
    \A t \in TaskIds :
        tasks[t].pc = "await" =>
            /\ CheckedFields(replan_engines[tasks[t].req.rideId])
                   = CheckedFields(tasks[t].checked)
            /\ \A u \in TaskIds \ {t} :
                   ~(tasks[u].pc = "await" /\ tasks[u].req.rideId = tasks[t].req.rideId)

\* a request is between its check and its commit while another request of
\* the same ride waits to run
C19_Witness ==
    \E t \in TaskIds, u \in TaskIds :
        /\ tasks[t].pc = "await"
        /\ tasks[u].pc = "ready"
        /\ tasks[u].req.rideId = tasks[t].req.rideId

\* C20: replan_engines holds one engine for each ride that has made a
\* request and for no other; an engine once made stays (its replan_count
\* never falls, its history only grows), and a step changes the engine of a
\* ride only on behalf of a request of that ride.
C20_OneEnginePerRide ==
    /\ [](DOMAIN replan_engines =
             {tasks[t].req.rideId : t \in {u \in TaskIds : tasks[u].pc \in {"await", "done"}}})
    /\ [][\A ride \in DOMAIN replan_engines :
            /\ ride \in DOMAIN replan_engines'
            /\ replan_engines'[ride].replan_count >= replan_engines[ride].replan_count
            /\ IsPrefix(replan_engines[ride].route_history,
                        replan_engines'[ride].route_history)
            /\ replan_engines'[ride] # replan_engines[ride] =>
                   \E t \in TaskIds : /\ tasks'[t] # tasks[t]
                                      /\ tasks[t].pc # "idle"
                                      /\ tasks[t].req.rideId = ride]_vars

\* both rides have an engine with a committed route
C20_Witness ==
    /\ DOMAIN replan_engines = ConcurrentRides
    /\ \A ride \in ConcurrentRides : replan_engines[ride].replan_count = 1

-----------------------------------------------------------------------------
(* Further claims about searches with a hierarchy (under SpecCH)             *)

-----------------------------------------------------------------------------
(* Further claims about the search (under Spec)                              *)

\* the summed recorded edge costs along the parent chain from node back to
\* start; NaN if the chain is longer than k
RECURSIVE ChainCost(_, _, _)
ChainCost(s, node, k) ==
    IF node \notin DOMAIN s.came_from THEN 0
    ELSE IF k = 0 THEN NaN
    ELSE LET rest == ChainCost(s, s.came_from[node], k - 1)
         IN  IF rest = NaN THEN NaN ELSE s.edge_details[node].cost + rest

\* the cost of the edge parent -> node, computed anew for the time at which
\* the parent is reached
CostFromParent(SG, q, s, node) ==
    extended_edge_cost(edge_attrs(SG, s.came_from[node], node),
                       s.arrival_times[s.came_from[node]], q.traffic_predictions,
                       make_edge_key(s.came_from[node], node),
                       q.alpha, q.beta, q.gamma, q.delta).cost

ChainHolds(SG, q, s, node) ==
    /\ s.g_scores[node] = ChainCost(s, node, Cardinality(SG.nodes))
    /\ node \in DOMAIN s.came_from =>
          s.edge_details[node].cost = CostFromParent(SG, q, s, node)

\* C22: the g of every closed node is the sum of the edge costs recorded
\* along its parent chain, each the cost of that edge at the time its tail
\* was reached; the returned cost is that sum for the goal; and no step
\* changes the g or the parent of a closed node.
C22_ClosedCostIsChainSum ==
    /\ [](\A node \in search.visited :
             ChainHolds(search_graph(contraction_hierarchy, GraphOf(road_graph)),
                        query, search, node))
    /\ [](Found =>
             /\ ChainHolds(search_graph(contraction_hierarchy, GraphOf(road_graph)),
                           query, search, query.goal)
             /\ search.result.cost = search.g_scores[query.goal])
    /\ [][\A node \in search.visited :
            /\ search'.g_scores[node] = search.g_scores[node]
            /\ Get(search'.came_from, node, 0) = Get(search.came_from, node, 0)]_vars

\* three nodes are closed, one of them reached over two edges after its
\* first, dearer, entry in the queue was superseded
C22_Witness ==
    /\ Cardinality(search.visited) >= 3
    /\ \E node \in search.visited :
          /\ node \in DOMAIN search.came_from
          /\ search.came_from[node] \in DOMAIN search.came_from
          /\ \E e \in search.open_set : e.node = node /\ e.g > search.g_scores[node]

-----------------------------------------------------------------------------
(* Further claims about preprocess (under SpecCH)                            *)

\* sc was rightly added while node was contracted in the graph tg with the
\* nodes of contracted done before
RightShortcut(sc, node, tg, contracted) ==
    /\ sc.via = node
    /\ has_edge(tg, sc.u, node) /\ has_edge(tg, node, sc.v)
    /\ sc.u \notin contracted /\ sc.v \notin contracted
    /\ sc.u # sc.v /\ sc.u # node /\ sc.v # node
    /\ sc.weight = edge_attrs(tg, sc.u, node).length_m + edge_attrs(tg, node, sc.v).length_m
    /\ has_edge(tg, sc.u, sc.v) => sc.weight < edge_attrs(tg, sc.u, sc.v).length_m

\* C23: every shortcut (u, w) added while node v is contracted joins a
\* predecessor and a successor of v, both not yet contracted and distinct
\* from each other and from v, where no edge u -> w exists or the way through
\* v is strictly shorter; its weight is length(u, v) + length(v, w) and its
\* via is v.
C23_ShortcutsOnlyWhereShorter ==
    [][(contraction_hierarchy.phase = "contracting"
          /\ contraction_hierarchy'.phase = "contracting") =>
        /\ Len(contraction_hierarchy'.shortcuts) >= Len(contraction_hierarchy.shortcuts)
        /\ \A k \in 1..Len(contraction_hierarchy'.shortcuts) :
              IF k <= Len(contraction_hierarchy.shortcuts)
              THEN contraction_hierarchy'.shortcuts[k] = contraction_hierarchy.shortcuts[k]
              ELSE RightShortcut(contraction_hierarchy'.shortcuts[k],
                                 contraction_hierarchy.ordered[contraction_hierarchy.next],
                                 contraction_hierarchy.temp_graph,
                                 contraction_hierarchy.contracted)]_vars

\* a second shortcut was added for a pair that already had one, the way
\* through the later node being strictly shorter
C23_Witness ==
    /\ Len(contraction_hierarchy.shortcuts) = 2
    /\ contraction_hierarchy.shortcuts[1].u = contraction_hierarchy.shortcuts[2].u
    /\ contraction_hierarchy.shortcuts[1].v = contraction_hierarchy.shortcuts[2].v
    /\ contraction_hierarchy.shortcuts[2].weight < contraction_hierarchy.shortcuts[1].weight

-----------------------------------------------------------------------------
(* Claims about roads of no speed (under SpecBlocked)                        *)

\* the road u -> v has free_flow_speed <= 0 and no positive predicted speed
Dead(G, q, u, v) ==
    /\ has_edge(G, u, v)
    /\ edge_attrs(G, u, v).free_flow_speed_kmh <= 0
    /\ Get(q.traffic_predictions, make_edge_key(u, v), 0) <= 0

\* C24: a road of free_flow_speed <= 0 without a positive predicted speed
\* has infinite travel time, no node's parent (and so g and arrival time)
\* is set over it, no queue entry comes over it, and no returned path
\* contains it, whatever the weights.
C24_NoRelaxationOverDeadRoads ==
    /\ \A i \in 1..Len(GraphOf(road_graph).edges) :
          LET e == GraphOf(road_graph).edges[i]
          IN  Dead(GraphOf(road_graph), query, e.u, e.v) =>
                time_dependent_weight(e, query.departure_time, query.traffic_predictions,
                                      make_edge_key(e.u, e.v)).travel_time = Inf
    /\ \A node \in DOMAIN search.came_from :
          /\ ~Dead(GraphOf(road_graph), query, search.came_from[node], node)
          /\ IsNumber(search.g_scores[node])
          /\ search.edge_details[node].travel_time_s # Inf
    /\ \A e \in search.open_set : IsNumber(e.g) /\ IsNumber(e.f)
    /\ Found =>
          \A i \in 1..(Len(search.result.path_nodes) - 1) :
              ~Dead(GraphOf(road_graph), query, search.result.path_nodes[i],
                    search.result.path_nodes[i + 1])

\* with alpha = 0 the node before the dead road to the goal was closed and
\* the search returned no route
C24_Witness ==
    /\ Returned
    /\ search.result = None
    /\ query.alpha = 0
    /\ query.goal = 4
    /\ 3 \in search.visited
    /\ Dead(GraphOf(road_graph), query, 3, 4)

-----------------------------------------------------------------------------
(* Claims about arrival times                                                *)

\* the time at the i-th node of path when each edge is entered at the
\* arrival time at its tail
RECURSIVE ArrivalAlong(_, _, _, _)
ArrivalAlong(SG, q, path, i) ==
    IF i = 1 THEN q.departure_time
    ELSE LET t == ArrivalAlong(SG, q, path, i - 1)
         IN  t + time_dependent_weight(edge_attrs(SG, path[i - 1], path[i]), t,
                     q.traffic_predictions,
                     make_edge_key(path[i - 1], path[i])).travel_time

\* C25: for every node of a returned path the recorded arrival time is the
\* departure time plus the travel times of the path's edges up to the node,
\* each edge's travel time (and hour of day) taken at the arrival time at
\* its tail; the result's arrivalTime is the goal's.
C25_ArrivalIsSumAlongPath ==
    Found =>
        /\ \A i \in 1..Len(search.result.path_nodes) :
              search.arrival_times[search.result.path_nodes[i]] =
                  ArrivalAlong(search_graph(contraction_hierarchy, GraphOf(road_graph)),
                               query, search.result.path_nodes, i)
        /\ search.result.arrivalTime =
              ArrivalAlong(search_graph(contraction_hierarchy, GraphOf(road_graph)),
                           query, search.result.path_nodes,
                           Len(search.result.path_nodes))

\* a route of two roads left in the rush hour whose second road is entered
\* after it, and is quicker then than at the departure time
C25_Witness ==
    /\ Found
    /\ Len(search.result.path_nodes) = 3
    /\ LET path == search.result.path_nodes
           e    == edge_attrs(GraphOf(road_graph), path[2], path[3])
           key  == make_edge_key(path[2], path[3])
       IN  /\ HourOf(search.arrival_times[path[2]]) # HourOf(query.departure_time)
           /\ time_dependent_weight(e, search.arrival_times[path[2]],
                                     query.traffic_predictions, key).travel_time
                 < time_dependent_weight(e, query.departure_time,
                                         query.traffic_predictions, key).travel_time

-----------------------------------------------------------------------------
(* Claims about the replanning engine's record                               *)

\* the ride of the last response and its engine
AnsweredRide == response.request.rideId

AnsweredEngine == replan_engines[AnsweredRide]

\* C26: the status of a replan response has at most 5 history entries, the
\* most recent commits of the ride in commit order; its replan_count,
\* last_replan and current_route_cost are those of the most recent commit
\* (0, absent and absent before the first).  A commit is a response with
\* replanned true: it adds one entry, with the request's time and the
\* returned route's cost, and no other response changes the record.
C26_StatusShowsLatestCommits ==
    /\ [](response.kind = "replan" =>
            LET st == response.status
                h  == AnsweredEngine.route_history
                n  == Len(h)
                m  == Len(st.history)
            IN  /\ m = Min(5, n)
                /\ \A k \in 1..m : st.history[k] = h[n - m + k]
                /\ st.replan_count = n
                /\ \A k \in 1..n : h[k].replan_number = k
                /\ IF n = 0
                   THEN st.last_replan = NoTime /\ st.current_route_cost = None
                   ELSE /\ st.last_replan = h[n].time
                        /\ st.current_route_cost = h[n].cost)
    /\ [][response'.kind = "replan" =>
            LET ride   == response'.request.rideId
                before == IF ride \in DOMAIN replan_engines
                          THEN replan_engines[ride].route_history ELSE <<>>
                after  == replan_engines'[ride].route_history
            IN  IF response'.replanned
                THEN /\ Len(after) = Len(before) + 1
                     /\ SubSeq(after, 1, Len(before)) = before
                     /\ after[Len(after)].time = response'.request.departureTime
                     /\ after[Len(after)].cost = response'.route.cost
                ELSE after = before]_vars

\* a commit after more than five: the status shows five entries, the first
\* of them not the ride's first commit
C26_Witness ==
    /\ response.kind = "replan"
    /\ response.replanned
    /\ Len(AnsweredEngine.route_history) >= 7
    /\ Len(response.status.history) = 5
    /\ response.status.history[1].replan_number = Len(AnsweredEngine.route_history) - 4

\* C29: in every state of every ReplanningEngine, current_route is absent
\* iff last_replan_time is absent iff replan_count is 0; replan_count is
\* the number of history entries; the k-th entry has replan_number k.
C29_EngineRecordConsistent ==
    \A ride \in DOMAIN replan_engines :
        LET self == replan_engines[ride]
        IN  /\ (self.current_route = None) <=> (self.last_replan_time = NoTime)
            /\ (self.last_replan_time = NoTime) <=> (self.replan_count = 0)
            /\ self.replan_count = Len(self.route_history)
            /\ \A k \in 1..Len(self.route_history) :
                  self.route_history[k].replan_number = k

\* an engine that committed twice answers a request without committing
C29_Witness ==
    /\ response.kind = "replan"
    /\ ~response.replanned
    /\ AnsweredEngine.replan_count >= 2
    /\ AnsweredEngine.current_route # None

\* C28: the committed costs of a ride fall strictly: every commit after the
\* first has a cost below (1 - theta) times the cost committed before it,
\* hence below every cost committed earlier, and the route a commit replaces
\* had a cost above the new one.
C28_CommittedCostFalls ==
    /\ [](\A ride \in DOMAIN replan_engines :
            LET h == replan_engines[ride].route_history
            IN  /\ \A k \in 2..Len(h) :
                      h[k].cost * 100 < h[k - 1].cost * (100 - hysteresis_threshold)
                /\ \A j \in 1..Len(h), k \in 1..Len(h) : j < k => h[k].cost < h[j].cost)
    /\ [][\A ride \in DOMAIN replan_engines :
            replan_engines'[ride].current_route # replan_engines[ride].current_route
            /\ replan_engines[ride].current_route # None =>
                replan_engines'[ride].current_route.cost * 100
                    < replan_engines[ride].current_route.cost * (100 - hysteresis_threshold)]_vars

\* after two commits at positive costs a candidate was turned down
C28_Witness ==
    /\ response.kind = "replan"
    /\ response.should_replan
    /\ ~response.replanned
    /\ Len(AnsweredEngine.route_history) >= 2
    /\ AnsweredEngine.route_history[2].cost > 0

\* C30: once the committed route of a ride has cost 0, no replan call
\* changes the ride's engine: nothing is committed, whatever the triggers
\* and the position.
C30_NoCommitAfterZeroCost ==
    [][\A ride \in DOMAIN replan_engines :
          LET self == replan_engines[ride]
          IN  self.current_route # None /\ self.current_route.cost = 0 =>
                /\ replan_engines'[ride] = self
                /\ (response'.kind = "replan" /\ response'.request.rideId = ride)
                      => ~response'.replanned]_vars

\* the ride's route was planned at the goal (cost 0, a single node); a
\* later request with the off-route trigger went to replan() and was
\* turned down
C30_Witness ==
    /\ response.kind = "replan"
    /\ response.should_replan
    /\ response.request.isOffRoute
    /\ ~response.replanned
    /\ AnsweredEngine.current_route # None
    /\ AnsweredEngine.current_route.cost = 0
    /\ Len(AnsweredEngine.current_route.path_nodes) = 1

-----------------------------------------------------------------------------
(* Claims about the segments of a returned route                             *)

\* C27: a returned route has one segment per consecutive pair of
\* path_nodes, in path order; distanceKm is the sum of the lengths of the
\* edges the search went over (those of the graph it searched, the
\* contracted graph included) and durationMin the sum of their travel
\* times, which is the arrival time less the departure time.
C27_SegmentsCoverTraversedEdges ==
    Found =>
        LET r    == search.result
            path == r.path_nodes
            SG   == search_graph(contraction_hierarchy, GraphOf(road_graph))
        IN  /\ Len(r.segments) = Len(path) - 1
            /\ \A k \in 1..Len(r.segments) :
                  /\ k < Len(path)
                  /\ r.segments[k].from_node = path[k]
                  /\ r.segments[k].to_node = path[k + 1]
            /\ r.distanceKm = PathLength(SG, path, 1)
            /\ r.durationMin = RoundDiv(r.arrivalTime - r.departureTime, 60)

============================================================================
